---- MODULE Spec2Model ----
(***************************************************************************)
(* A model of the heimdall API gateway: the middleware chain, the route    *)
(* table, the proxy handler's header rewrite and error mapping, and the    *)
(* server's start/shutdown protocol.                                       *)
(*                                                                         *)
(* The module holds several specifications over one set of variables; a    *)
(* specification leaves the variables of the other components at their     *)
(* idle values.                                                            *)
(*   SpecChain   middleware.Chain: Add, Then, serving the composed handler *)
(***************************************************************************)
EXTENDS Integers, Sequences, FiniteSets, TLC

VARIABLES
    \* ---- middleware chain (src/unnamed/part_006)
    chain,          \* Chain.middlewares of the chain under test
    handler,        \* the http.Handler last returned by chain.Then, or NoHandler
    composedFrom,   \* history: the receiver's middlewares and the final of that Then call
    order,          \* what serving `handler` recorded, in execution order
    \* ---- two chains as Go slices (src/unnamed/part_006: Add, Clone)
    arrays,         \* the backing arrays allocated so far, each a sequence of cells
    c1,             \* the slice header of the original chain's middlewares
    c2,             \* the slice header of its clone's middlewares, once cloned
    \* ---- a middleware registry and its concurrent callers (src/unnamed/part_009)
    mregistry,      \* Registry.middlewares: name -> Middleware
    mutex,          \* Registry.mutex: the writer holding it and the readers holding it
    calls,          \* per caller: the call it is in, where it stands, its results
    registered,     \* the registrations that succeeded, in order
    defaults,       \* the package's default registry: nil or set, its sync.Once, its history
    \* ---- route table (src/router.go)
    endpoints,      \* []EndpointConfig given to NewRouterWithRegistry
    registry,       \* MiddlewareRegistry.middlewares: name -> Middleware
    router,         \* the (*Router, error) NewRouterWithRegistry returned, or NoRouter
    lookup,         \* the last GetRoute call: its arguments and its two results
    \* ---- the gateway (src/heimdall.go): construction, Use, requests on its routes
    gwNames,        \* cfg.Gateway.Middlewares: the configured global middleware names
    gateway,        \* the (*Gateway, error) NewWithRegistry returned, or NoGateway
    use,            \* the Use call in progress, if any, and how far it got
    used,           \* the middlewares of the Use calls that returned, in call order
    served,         \* the last request dispatched: its route and what ran for it
    raced,          \* whether a handler field was read while it was being written
    custom,         \* per route key, the handler last given to SetHandler for it, if any
    applies,        \* how many times the route handlers were composed again
    \* ---- header rewrite (src/unnamed/part_003, processHeaders)
    hroute,         \* the Route whose AllowedHeaders and Headers are applied
    inbound,        \* req.Header as the Director receives it
    outgoing,       \* req.Header after processHeaders, or NotProcessed
    \* ---- requests through the proxy handler (src/unnamed/part_003)
    reqs,           \* per request: where its handling stands, its response, its history
    reqCtxCanceled, \* whether the server's shared request context (reqCtx) is canceled
    \* ---- Server.Start (src/internal/server/server.go)
    sig,            \* whether the context given to Start (the lifecycle signal) is done
    groupCanceled,  \* whether the errgroup canceled its derived context
    groupErr,       \* the first error a task of the errgroup returned, or Nil
    lpc,            \* where the listener task stands
    wpc,            \* where the shutdown-watcher task stands
    wres,           \* what srv.Shutdown returned, or "pending"
    inShutdown,     \* http.Server.inShutdown
    listenerOpen,   \* whether the server's listener accepts connections
    elapsed,        \* whether ShutdownTimeout has passed since the watcher armed it
    inFlightAtElapse, \* whether a request was in flight when it passed, or came later
    inFlightAtShutdown, \* whether a request was in flight when srv.Shutdown began
    timer,          \* the time.AfterFunc(ShutdownTimeout, cancelRequest) timer
    startRet,       \* whether Start returned, and the error it returned
    failures        \* the non-nil results of the two tasks, in the order they returned

cloneVars == <<arrays, c1, c2>>
regVars == <<mregistry, mutex, calls, registered, defaults>>
chainVars == <<chain, handler, composedFrom, order, cloneVars, regVars>>
adminVars == <<custom, applies>>
gwVars == <<gwNames, gateway, use, used, served, raced, adminVars>>
routerVars == <<endpoints, registry, router, lookup, gwVars>>
headerVars == <<hroute, inbound, outgoing>>
proxyVars == <<reqs, reqCtxCanceled>>
serverVars == <<sig, groupCanceled, groupErr, lpc, wpc, wres, inShutdown, listenerOpen,
                elapsed, inFlightAtElapse,
                   inFlightAtShutdown, timer, startRet, failures>>

vars == <<chainVars, routerVars, headerVars, proxyVars, serverVars>>

(***************************************************************************)
(* Bounds of the model.                                                    *)
(***************************************************************************)
MaxChain == 3       \* longest middleware chain built by Add
MaxEndpoints == 2   \* longest list of endpoint definitions
MaxAllowed == 2     \* longest allowedHeaders list
MaxVals == 2        \* most values of one inbound header
MaxReqs == 1        \* requests the server accepts in one run
MaxNames == 2       \* longest list of names given to GetMultiple
MaxUses == 2        \* most Use calls on one gateway

(***************************************************************************)
(* Middleware and handlers.                                                *)
(*                                                                         *)
(* A middleware is a value with a Wrap method.  The model has three named  *)
(* function middlewares: "A" and "B" record "<name>-before", delegate to   *)
(* next and record "<name>-after" (the shape used by the order test);      *)
(* "S" records "S-before" and answers without delegating (the shape of the *)
(* CORS preflight branch).  A Chain is itself a Middleware (Chain.Wrap).   *)
(***************************************************************************)
Nil == "nil"
NoHandler == [kind |-> "none", mw |-> Nil, next |-> <<>>]
\* A nil http.Handler passed as an argument.
NilHandler == [kind |-> "nil", mw |-> Nil, next |-> <<>>]

MwNames == {"A", "B", "S"}

MwDelegates(name) == name # "S"

\* A named function middleware (Func / MiddlewareFunc).
MwFunc(name) == [name |-> name, sub |-> <<>>]

\* A *Chain used as a Middleware: its Wrap is its Then.
MwChain(mws) == [name |-> "chain", sub |-> mws]

\* A terminal handler (the `final` given to Then).
FinalHandler(f) == [kind |-> "final", mw |-> f, next |-> <<>>]

\* The handler a function middleware returns from Wrap(next): a closure over next.
WrapFunc(name, next) == [kind |-> "mw", mw |-> name, next |-> <<next>>]

RECURSIVE ThenFrom(_, _, _)
\* The loop of Chain.Then: for i := len-1; i >= 0; i-- { handler = mws[i].Wrap(handler) }
\* (i is the 1-based index of the next middleware to wrap with).
ThenFromForward(mws, i, h) ==
    IF i = 0 THEN h
    ELSE LET j == Len(mws) + 1 - i
             m == mws[j]
             wrapped == IF m.name = "chain"
                        THEN ThenFrom(m.sub, Len(m.sub), h)
                        ELSE WrapFunc(m.name, h)
         IN  ThenFrom(mws, i - 1, wrapped)

ThenFrom(mws, i, h) ==
    IF i = 0 THEN h
    ELSE LET m == mws[i]
             wrapped == IF m.name = "chain"
                        THEN ThenFrom(m.sub, Len(m.sub), h)
                        ELSE WrapFunc(m.name, h)
         IN  ThenFrom(mws, i - 1, wrapped)

\* Chain.Then(final): a nil final is replaced by http.DefaultServeMux.
Then(mws, final) ==
    LET f == IF final = NilHandler THEN FinalHandler("DefaultServeMux") ELSE final
    IN  ThenFrom(mws, Len(mws), f)

\* One record of the order log.
Ev(who, at) == [who |-> who, at |-> at]

RECURSIVE Serve(_)
\* handler.ServeHTTP: what a composed handler records, in order.
Serve(h) ==
    IF h.kind = "final" THEN <<Ev(h.mw, "run")>>
    ELSE IF MwDelegates(h.mw)
         THEN <<Ev(h.mw, "before")>> \o Serve(h.next[1]) \o <<Ev(h.mw, "after")>>
         ELSE <<Ev(h.mw, "before")>>

(***************************************************************************)
(* SpecChain: a chain is built by Add, composed by Then and the composed   *)
(* handler is served.                                                      *)
(***************************************************************************)
\* A chain that does not exist yet.
NoChain == [made |-> FALSE, arr |-> 0, len |-> 0, cap |-> 0]

\* NewChain(): middlewares is the empty slice literal, which has no backing cells.
NewChain == [made |-> TRUE, arr |-> 0, len |-> 0, cap |-> 0]

CloneIdle ==
    /\ arrays = <<>>
    /\ c1 = NewChain
    /\ c2 = NoChain

\* NewRegistry(): an empty map.
EmptyRegistry == [n \in {} |-> MwFunc(Nil)]

Callers == {1, 2}

\* A caller that is in no call.
NoCall ==
    [pc |-> "idle", op |-> Nil, name |-> Nil, mw |-> MwFunc(Nil), names |-> <<>>, i |-> 0,
     result |-> <<>>, missing |-> <<>>, exists |-> FALSE, err |-> Nil,
     seen |-> EmptyRegistry]

\* sync.RWMutex with nobody holding it.
Unlocked == [writer |-> 0, readers |-> {}]

\* No GetMiddleware call was made.
NoAsk == [called |-> FALSE, name |-> Nil, found |-> FALSE, mw |-> MwFunc(Nil),
          since |-> EmptyRegistry]

\* The package variables as declared: var defaultRegistry *Registry (nil) and a
\* sync.Once that has not run.  since: the registrations that succeeded since
\* the last ResetDefaultRegistry; asked: the last GetMiddleware and since at its
\* call; built/builtSince: whether a router was built, and since at that build.
NoDefaults ==
    [isNil |-> TRUE, once |-> FALSE, panicked |-> FALSE, since |-> EmptyRegistry,
     asked |-> NoAsk, built |-> FALSE, builtSince |-> EmptyRegistry]

RegIdle ==
    /\ defaults = NoDefaults
    /\ mregistry = EmptyRegistry
    /\ mutex = Unlocked
    /\ calls = [p \in Callers |-> NoCall]
    /\ registered = <<>>

ChainIdle ==
    /\ CloneIdle
    /\ RegIdle
    /\ chain = <<>>
    /\ handler = NoHandler
    /\ composedFrom = [mws |-> <<>>, final |-> NilHandler]
    /\ order = <<>>

\* No gateway has been constructed.
NoGateway == [built |-> FALSE, err |-> Nil, Routes |-> <<>>, globalMiddlewares |-> <<>>]

\* No Use call is in progress.
NoUse == [pc |-> "idle", mw |-> MwFunc(Nil), todo |-> {}, writing |-> {}]

\* No request has been dispatched.
NoServed == [any |-> FALSE, path |-> Nil, method |-> Nil, log |-> <<>>,
             usedBefore |-> <<>>, duringUse |-> FALSE]

\* Router.SetHandler has not been called and nothing was composed again.
AdminIdle ==
    /\ custom = <<>>
    /\ applies = 0

GatewayIdle ==
    /\ AdminIdle
    /\ gwNames = <<>>
    /\ gateway = NoGateway
    /\ use = NoUse
    /\ used = <<>>
    /\ served = NoServed
    /\ raced = FALSE

RouterIdle ==
    /\ GatewayIdle
    /\ endpoints = <<>>
    /\ registry = <<>>
    /\ router = [built |-> FALSE, err |-> Nil, Routes |-> <<>>]
    /\ lookup = [called |-> FALSE]

NotProcessed == [done |-> FALSE, h |-> <<>>]

HeadersIdle ==
    /\ hroute = [AllowedHeaders |-> <<>>, Headers |-> <<>>]
    /\ inbound = <<>>
    /\ outgoing = NotProcessed

Reqs == 1..MaxReqs

\* A request that has not arrived.
NoReq ==
    [state |-> "none", path |-> Nil, method |-> Nil, backend |-> Nil,
     gone |-> FALSE, status |-> 0, body |-> "", connClose |-> FALSE,
     log |-> <<>>, post |-> <<>>, contacted |-> 0, outPath |-> Nil, outHost |-> Nil,
     precanceled |-> FALSE, cause |-> Nil, canceledAtError |-> FALSE]

ProxyIdle ==
    /\ reqs = [r \in Reqs |-> NoReq]
    /\ reqCtxCanceled = FALSE

\* Start has not been called.
NotReturned == [returned |-> FALSE, err |-> Nil]

ServerIdle ==
    /\ sig = FALSE
    /\ groupCanceled = FALSE
    /\ groupErr = Nil
    /\ lpc = "start"
    /\ wpc = "wait"
    /\ wres = "pending"
    /\ inShutdown = FALSE
    /\ listenerOpen = FALSE
    /\ elapsed = FALSE
    /\ inFlightAtElapse = FALSE
    /\ inFlightAtShutdown = FALSE
    /\ timer = "none"
    /\ startRet = NotReturned
    /\ failures = <<>>

InitChain == ChainIdle /\ RouterIdle /\ HeadersIdle /\ ProxyIdle /\ ServerIdle

\* A mutation of Add: a handler Then returned earlier follows the chain, as if
\* it read the chain's middlewares when it serves.
AddReachesHandler(m) ==
    /\ Len(chain) < MaxChain
    /\ chain' = Append(chain, m)
    /\ handler' = IF handler = NoHandler THEN handler
                  ELSE Then(chain', composedFrom.final)
    /\ UNCHANGED <<composedFrom, order>>
    /\ UNCHANGED <<cloneVars, regVars, routerVars, headerVars, proxyVars, serverVars>>

\* Chain.Add(m) / Chain.AddFunc(f)
Add(m) ==
    /\ Len(chain) < MaxChain
    /\ chain' = Append(chain, m)
    /\ UNCHANGED <<handler, composedFrom, order>>
    /\ UNCHANGED <<cloneVars, regVars, routerVars, headerVars, proxyVars, serverVars>>

AddAny == \E n \in MwNames : Add(MwFunc(n))

\* handler := chain.Then(final)
ThenStep ==
    /\ \E final \in {FinalHandler("final"), NilHandler} :
          /\ handler' = Then(chain, final)
          /\ composedFrom' = [mws |-> chain, final |-> final]
    /\ order' = <<>>
    /\ UNCHANGED chain
    /\ UNCHANGED <<cloneVars, regVars, routerVars, headerVars, proxyVars, serverVars>>

\* handler.ServeHTTP(rec, req)
ServeStep ==
    /\ handler # NoHandler
    /\ order = <<>>
    /\ order' = Serve(handler)
    /\ UNCHANGED <<chain, handler, composedFrom>>
    /\ UNCHANGED <<cloneVars, regVars, routerVars, headerVars, proxyVars, serverVars>>

NextChain == AddAny \/ ThenStep \/ ServeStep

SpecChain == InitChain /\ [][NextChain]_vars

\* The name the final handler records under: a nil final is http.DefaultServeMux.
FinalName(final) == IF final = NilHandler THEN "DefaultServeMux" ELSE final.mw

\* <<Ev(m1,"before"), ..., Ev(mn,"before")>> for the named middlewares of mws.
Befores(mws) == [i \in 1..Len(mws) |-> Ev(mws[i].name, "before")]

\* <<Ev(mn,"after"), ..., Ev(m1,"after")>>
Afters(mws) == [i \in 1..Len(mws) |-> Ev(mws[Len(mws) + 1 - i].name, "after")]

AllDelegate(mws) == \A i \in 1..Len(mws) : MwDelegates(mws[i].name)

\* C1: for a chain built by any sequence of adds of delegating middlewares, the
\* handler returned by then(final) runs the pre-logic in the order of the adds,
\* then final, then the post-logic in reverse order.
C1_StackOrder ==
    (order # <<>> /\ AllDelegate(composedFrom.mws)) =>
        order = Befores(composedFrom.mws)
                  \o <<Ev(FinalName(composedFrom.final), "run")>>
                  \o Afters(composedFrom.mws)

\* C1 witness: the chain [A, B] composed with final was served and recorded
\* A-before, B-before, final, B-after, A-after.
C1_Witness ==
    /\ composedFrom.mws = <<MwFunc("A"), MwFunc("B")>>
    /\ order = <<Ev("A", "before"), Ev("B", "before"), Ev("final", "run"),
                 Ev("B", "after"), Ev("A", "after")>>

(***************************************************************************)
(* The route table (src/router.go).                                        *)
(***************************************************************************)
NoRouter == [built |-> FALSE, err |-> Nil, Routes |-> <<>>]

Paths == {"/foo", "/bar"}
Methods == {"GET", "POST"}
Targets == {"http://a/x", "http://b", "://invalid"}

\* url.Parse: "://invalid" has no scheme and fails; the others parse into their parts.
ParseURL(t) ==
    IF t = "://invalid"
    THEN [err |-> "missing protocol scheme", url |-> Nil]
    ELSE [err |-> Nil,
          url |-> [Scheme |-> "http",
                   Host |-> IF t = "http://a/x" THEN "a" ELSE "b",
                   Path |-> IF t = "http://a/x" THEN "/x" ELSE "",
                   RawQuery |-> "",
                   Opaque |-> ""]]

\* Registry.Get
RegistryGet(reg, name) ==
    IF name \in DOMAIN reg THEN [mw |-> reg[name], exists |-> TRUE]
    ELSE [mw |-> MwFunc(Nil), exists |-> FALSE]

RECURSIVE GetMultipleFrom(_, _, _, _, _)
\* The loop of Registry.GetMultiple over names[i..]: resolved and missing, in input order.
GetMultipleFrom(reg, names, i, result, missing) ==
    IF i > Len(names) THEN [result |-> result, missing |-> missing]
    ELSE IF RegistryGet(reg, names[i]).exists
         THEN GetMultipleFrom(reg, names, i + 1, Append(result, reg[names[i]]), missing)
         ELSE GetMultipleFrom(reg, names, i + 1, result, Append(missing, names[i]))

GetMultiple(reg, names) == GetMultipleFrom(reg, names, 1, <<>>, <<>>)

\* The &Route{...} literal of NewRouterWithRegistry: the chain starts empty, no handler.
NewRoute(ep, targetURL) ==
    [OriginalPath |-> ep.Path,
     Target |-> targetURL,
     Method |-> ep.Method,
     Headers |-> ep.Headers,
     AllowedHeaders |-> ep.AllowedHeaders,
     Middleware |-> ep.Middlewares,
     Middlewares |-> <<>>,
     Handler |-> NoHandler]

\* A mutation of the assignment: a (path, method) that has a route keeps it.
PutRouteKeepsFirst(routes, path, method, route) ==
    LET old == IF path \in DOMAIN routes THEN routes[path] ELSE <<>>
        new == [m \in DOMAIN old \cup {method} |->
                   IF m = method /\ m \notin DOMAIN old THEN route ELSE old[m]]
    IN  [p \in DOMAIN routes \cup {path} |-> IF p = path THEN new ELSE routes[p]]

\* routes[path][method] = route, creating routes[path] when absent.
PutRoute(routes, path, method, route) ==
    LET old == IF path \in DOMAIN routes THEN routes[path] ELSE <<>>
        new == [m \in DOMAIN old \cup {method} |-> IF m = method THEN route ELSE old[m]]
    IN  [p \in DOMAIN routes \cup {path} |-> IF p = path THEN new ELSE routes[p]]

RECURSIVE ParseEndpointsSkipBad(_, _, _)
\* A mutation of the first loop: an endpoint whose target does not parse is skipped.
ParseEndpointsSkipBad(eps, i, routes) ==
    IF i > Len(eps) THEN [err |-> Nil, Routes |-> routes]
    ELSE LET parsed == ParseURL(eps[i].Target)
         IN  IF parsed.err # Nil
             THEN ParseEndpointsSkipBad(eps, i + 1, routes)
             ELSE ParseEndpointsSkipBad(eps, i + 1,
                     PutRoute(routes, eps[i].Path, eps[i].Method,
                              NewRoute(eps[i], parsed.url)))

RECURSIVE ParseEndpoints(_, _, _)
\* The first loop of NewRouterWithRegistry over eps[i..]: the first target that
\* does not parse ends the construction with its error.
ParseEndpoints(eps, i, routes) ==
    IF i > Len(eps) THEN [err |-> Nil, Routes |-> routes]
    ELSE LET parsed == ParseURL(eps[i].Target)
         IN  IF parsed.err # Nil
             THEN [err |-> parsed.err, Routes |-> <<>>]
             ELSE ParseEndpoints(eps, i + 1,
                     PutRoute(routes, eps[i].Path, eps[i].Method,
                              NewRoute(eps[i], parsed.url)))

\* A mutation of the second loop: a route with a missing name gets no middleware.
ResolveRouteAllOrNone(reg, route) ==
    IF Len(route.Middleware) > 0 /\ Len(GetMultiple(reg, route.Middleware).missing) = 0
    THEN [route EXCEPT !.Middlewares = route.Middlewares
                                         \o GetMultiple(reg, route.Middleware).result]
    ELSE route

\* The second loop: each route with middleware names gets the resolved ones
\* added to its chain; the missing ones are only logged.
ResolveRoute(reg, route) ==
    IF Len(route.Middleware) > 0
    THEN [route EXCEPT !.Middlewares = route.Middlewares
                                         \o GetMultiple(reg, route.Middleware).result]
    ELSE route

\* NewRouterWithRegistry(endpoints, registry)
NewRouterWithRegistry(eps, reg) ==
    LET parsed == ParseEndpoints(eps, 1, <<>>)
    IN  IF parsed.err # Nil
        THEN [built |-> FALSE, err |-> parsed.err, Routes |-> <<>>]
        ELSE [built |-> TRUE, err |-> Nil,
              Routes |-> [p \in DOMAIN parsed.Routes |->
                            [m \in DOMAIN parsed.Routes[p] |->
                                ResolveRoute(reg, parsed.Routes[p][m])]]]

NoRoute == [found |-> FALSE, path |-> Nil, method |-> Nil]

\* A mutation of GetRoute: a path that is configured answers for any method.
GetRouteAnyMethod(routes, path, method) ==
    IF path \notin DOMAIN routes THEN NoRoute
    ELSE IF method \in DOMAIN routes[path]
         THEN [found |-> TRUE, path |-> path, method |-> method]
         ELSE LET m == CHOOSE x \in DOMAIN routes[path] : TRUE
              IN  [found |-> TRUE, path |-> path, method |-> m]

\* Router.GetRoute(path, method): the *Route is the key of the route found.
GetRoute(routes, path, method) ==
    IF path \notin DOMAIN routes THEN NoRoute
    ELSE IF method \notin DOMAIN routes[path] THEN NoRoute
         ELSE [found |-> TRUE, path |-> path, method |-> method]

\* *route
Deref(routes, ref) == routes[ref.path][ref.method]

(***************************************************************************)
(* SpecRouter: a router is built from a list of endpoint definitions and   *)
(* queried.                                                                *)
(***************************************************************************)
EndpointConfigs ==
    [Path : Paths, Method : Methods, Target : Targets,
     Headers : {<<>>}, AllowedHeaders : {<<>>},
     Middlewares : {<<>>, <<"A", "absent">>}]

RECURSIVE SeqsUpTo(_, _)
\* The sequences over S of length at most n.
SeqsUpTo(S, n) ==
    IF n = 0 THEN {<<>>}
    ELSE LET shorter == SeqsUpTo(S, n - 1)
         IN  shorter \cup {Append(q, x) : q \in shorter, x \in S}

InitRouter ==
    /\ ChainIdle /\ HeadersIdle /\ ProxyIdle /\ ServerIdle
    /\ endpoints \in SeqsUpTo(EndpointConfigs, MaxEndpoints)
    /\ registry \in {<<>>, [n \in {"A"} |-> MwFunc("A")]}
    /\ router = NoRouter
    /\ GatewayIdle
    /\ lookup = [called |-> FALSE]

\* router, err := NewRouterWithRegistry(endpoints, registry)
NewRouterStep ==
    /\ router = NoRouter
    /\ router' = NewRouterWithRegistry(endpoints, registry)
    /\ UNCHANGED <<endpoints, registry, lookup, gwVars>>
    /\ UNCHANGED <<chainVars, headerVars, proxyVars, serverVars>>

\* route, ok := router.GetRoute(path, method)
GetRouteStep ==
    /\ router.built
    /\ \E path \in Paths, method \in Methods :
          lookup' = [called |-> TRUE, path |-> path, method |-> method,
                     res |-> GetRoute(router.Routes, path, method)]
    /\ UNCHANGED <<endpoints, registry, router, gwVars>>
    /\ UNCHANGED <<chainVars, headerVars, proxyVars, serverVars>>

NextRouter == NewRouterStep \/ GetRouteStep

SpecRouter == InitRouter /\ [][NextRouter]_vars

\* The endpoint definitions for (path, method), by position.
DefsOf(path, method) ==
    {i \in 1..Len(endpoints) : endpoints[i].Path = path /\ endpoints[i].Method = method}

\* The last of a non-empty set of positions.
Last(S) == CHOOSE i \in S : \A j \in S : j <= i

\* C2: getRoute(path, method) returns found with the Route configured for exactly
\* that (path, method), and not-found for every other pair, a configured path
\* queried with a method not configured for it included.
C2_ExactLookup ==
    (router.built /\ lookup.called) =>
        LET defs == DefsOf(lookup.path, lookup.method)
        IN  /\ lookup.res.found <=> defs # {}
            /\ lookup.res.found =>
                  LET route == Deref(router.Routes, lookup.res)
                  IN  /\ route.OriginalPath = lookup.path
                      /\ route.Method = lookup.method
                      /\ route.Target = ParseURL(endpoints[Last(defs)].Target).url

\* C2 witness: a configured path was queried with a method that is not
\* configured for it (not found), in a table that holds another route.
C2_Witness ==
    /\ router.built /\ lookup.called
    /\ ~lookup.res.found
    /\ \E i \in 1..Len(endpoints) :
          endpoints[i].Path = lookup.path /\ endpoints[i].Method # lookup.method

(***************************************************************************)
(* The header rewrite of a proxied request (ProxyHandler.processHeaders).  *)
(*                                                                         *)
(* An http.Header is a map from header name to the list of its values.     *)
(* Header.Add and Header.Set canonicalise the name they are given; an      *)
(* index expression req.Header[name] does not.  The names of a request     *)
(* read by net/http are canonical; the names in a route's configuration    *)
(* are whatever the configuration file spells.                             *)
(***************************************************************************)
defaultUserAgent == "Heimdall/0.1"

\* textproto.CanonicalMIMEHeaderKey on the names of the model.
Canon(name) ==
    CASE name = "x-fwd" -> "X-Fwd"
      [] name = "x-static" -> "X-Static"
      [] name = "user-agent" -> "User-Agent"
      [] OTHER -> name

\* A mutation of Header.Add: the value replaces the values already under key.
HAddReplaces(h, key, value) ==
    LET k == Canon(key)
    IN  [n \in DOMAIN h \cup {k} |-> IF n = k THEN <<value>> ELSE h[n]]

\* http.Header.Add(key, value)
HAdd(h, key, value) ==
    LET k == Canon(key)
    IN  [n \in DOMAIN h \cup {k} |->
            IF n = k THEN (IF k \in DOMAIN h THEN Append(h[k], value) ELSE <<value>>)
            ELSE h[n]]

\* A mutation of Header.Set: the value is appended to the values under key.
HSetAppends(h, key, value) ==
    LET k == Canon(key)
    IN  [n \in DOMAIN h \cup {k} |->
            IF n = k THEN (IF k \in DOMAIN h THEN Append(h[k], value) ELSE <<value>>)
            ELSE h[n]]

\* http.Header.Set(key, value)
HSet(h, key, value) ==
    LET k == Canon(key)
    IN  [n \in DOMAIN h \cup {k} |-> IF n = k THEN <<value>> ELSE h[n]]

RECURSIVE HAddAll(_, _, _, _)
\* for _, value := range values { req.Header.Add(key, value) }, from values[i]
HAddAll(h, key, values, i) ==
    IF i > Len(values) THEN h
    ELSE HAddAll(HAdd(h, key, values[i]), key, values, i + 1)

\* A mutation of the allow-list filter: every inbound header is collected.
AllowedHeaderValuesAll(reqHeader, allowed) == reqHeader

\* The first loop of processHeaders: the inbound headers indexed by an entry of
\* AllowedHeaders, by the exact spelling of that entry.
AllowedHeaderValues(reqHeader, allowed) ==
    LET kept == {allowed[i] : i \in 1..Len(allowed)} \cap DOMAIN reqHeader
    IN  [n \in kept |-> reqHeader[n]]

RECURSIVE HAddMap(_, _, _, _)
\* for key, values := range m { ...Add(key, value)... } visiting the keys of m
\* in the order keyOrder[i..] (Go leaves the order of a map range unspecified).
HAddMap(h, m, keyOrder, i) ==
    IF i > Len(keyOrder) THEN h
    ELSE HAddMap(HAddAll(h, keyOrder[i], m[keyOrder[i]], 1), m, keyOrder, i + 1)

\* processHeaders(req, route), the two map ranges visiting their keys in the
\* orders allowedOrder and staticOrder.
ProcessHeaders(reqHeader, route, allowedOrder, staticOrder) ==
    LET allowedHeaderValues == AllowedHeaderValues(reqHeader, route.AllowedHeaders)
        fresh == <<>>
        withAllowed == HAddMap(fresh, allowedHeaderValues, allowedOrder, 1)
        withStatic == HAddMap(withAllowed, route.Headers, staticOrder, 1)
    IN  HSet(withStatic, "User-Agent", defaultUserAgent)

RECURSIVE Perms(_)
\* The orders in which a map range may visit the key set S.
Perms(S) ==
    IF S = {} THEN {<<>>}
    ELSE UNION {{<<x>> \o q : q \in Perms(S \ {x})} : x \in S}

(***************************************************************************)
(* SpecHeaders: one route, one inbound request, one rewrite.               *)
(***************************************************************************)
InboundNames == {"X-Fwd", "X-Drop", "User-Agent"}
AllowedNames == {"X-Fwd", "x-fwd", "User-Agent"}
StaticNames == {"X-Static", "x-static", "X-Fwd", "User-Agent"}

\* The maps from a subset of names to one of the value lists.
HeaderMaps(names, values) ==
    UNION {[present -> values] : present \in SUBSET names}

\* The value lists an inbound header may carry: <<"in1">>, <<"in1", "in2">>, ...
\* (several values for X-Fwd, one for the others).
InboundValues == {[i \in 1..n |-> IF i = 1 THEN "in1" ELSE "in2"] : n \in 1..MaxVals}

InboundHeaders ==
    {h \in HeaderMaps(InboundNames, InboundValues) :
        \A n \in DOMAIN h : n # "X-Fwd" => h[n] = <<"in1">>}

\* The value lists a static header is configured with.
StaticValues == {<<"v1">>, <<"v1", "v2">>}

InitHeaders ==
    /\ ChainIdle /\ RouterIdle /\ ProxyIdle /\ ServerIdle
    /\ \E allowed \in SeqsUpTo(AllowedNames, MaxAllowed),
          static \in HeaderMaps(StaticNames, StaticValues) :
          hroute = [AllowedHeaders |-> allowed, Headers |-> static]
    /\ inbound \in InboundHeaders
    /\ outgoing = NotProcessed

\* p.processHeaders(req, route), called by the Director
ProcessHeadersStep ==
    /\ ~outgoing.done
    /\ \E allowedOrder \in
             Perms(DOMAIN AllowedHeaderValues(inbound, hroute.AllowedHeaders)),
          staticOrder \in Perms(DOMAIN hroute.Headers) :
          outgoing' = [done |-> TRUE,
                       h |-> ProcessHeaders(inbound, hroute, allowedOrder, staticOrder)]
    /\ UNCHANGED <<hroute, inbound>>
    /\ UNCHANGED <<chainVars, routerVars, proxyVars, serverVars>>

NextHeaders == ProcessHeadersStep

SpecHeaders == InitHeaders /\ [][NextHeaders]_vars

\* Whether name is an entry of the route's allowedHeaders, spelled exactly so.
InAllowed(name) ==
    \E i \in 1..Len(hroute.AllowedHeaders) : hroute.AllowedHeaders[i] = name

\* The inbound values that pass the allow-list under name.
PassedValues(name) ==
    IF name \in DOMAIN inbound /\ InAllowed(name) THEN inbound[name] ELSE <<>>

RECURSIVE StaticValuesOf(_, _, _)
\* The static values configured under a spelling of name, the keys taken in keyOrder.
StaticValuesOf(name, keyOrder, i) ==
    IF i > Len(keyOrder) THEN <<>>
    ELSE (IF Canon(keyOrder[i]) = name THEN hroute.Headers[keyOrder[i]] ELSE <<>>)
            \o StaticValuesOf(name, keyOrder, i + 1)

OutNames == {Canon(n) : n \in InboundNames \cup AllowedNames \cup StaticNames}

\* The values of name in the outgoing header set (none when the name is absent).
OutValues(name) == IF name \in DOMAIN outgoing.h THEN outgoing.h[name] ELSE <<>>

\* C3 as stated: the outgoing header set holds exactly every allow-listed inbound
\* header with its inbound values, every value of every static header, and
\* User-Agent (the fixed identifier), User-Agent being treated like any other
\* allow-listed or static name.
C3_Original ==
    outgoing.done =>
        \E staticOrder \in Perms(DOMAIN hroute.Headers) :
            \A name \in OutNames :
                OutValues(name) =
                    PassedValues(name) \o StaticValuesOf(name, staticOrder, 1)
                      \o (IF name = "User-Agent" THEN <<defaultUserAgent>> ELSE <<>>)

\* C3 amended: for every name other than User-Agent the outgoing values are the
\* inbound values if the name is allow-listed, followed by the static values
\* configured under that name; User-Agent carries the fixed identifier alone;
\* nothing else is present.
C3_HeaderRewrite ==
    outgoing.done =>
        \E staticOrder \in Perms(DOMAIN hroute.Headers) :
            \A name \in OutNames :
                OutValues(name) =
                    IF name = "User-Agent" THEN <<defaultUserAgent>>
                    ELSE PassedValues(name) \o StaticValuesOf(name, staticOrder, 1)

\* C3 witness: the scenario of the specification (X-Fwd allow-listed and kept,
\* X-Drop dropped, X-Static: v1, v2 injected) with User-Agent also inbound.
C3_Witness ==
    /\ outgoing.done
    /\ hroute.AllowedHeaders = <<"X-Fwd">>
    /\ hroute.Headers = [n \in {"X-Static"} |-> <<"v1", "v2">>]
    /\ DOMAIN inbound = {"X-Fwd", "X-Drop", "User-Agent"}
    /\ outgoing.h = [n \in {"X-Fwd", "X-Static", "User-Agent"} |->
                        CASE n = "X-Fwd" -> inbound["X-Fwd"]
                          [] n = "X-Static" -> <<"v1", "v2">>
                          [] OTHER -> <<defaultUserAgent>>]

\* Whether name is a header that survived the allow-list filter.
Survived(name) == name \in DOMAIN AllowedHeaderValues(inbound, hroute.AllowedHeaders)

\* Whether the route's static headers map has a key that names the header name.
HasStatic(name) == \E k \in DOMAIN hroute.Headers : Canon(k) = name

\* C21 as stated: a header that survived the allow-list filter and is also a
\* static header of the route goes out with the static values only.
C21_Original ==
    outgoing.done =>
        \A name \in OutNames :
            Survived(name) /\ HasStatic(name) =>
                \E staticOrder \in Perms(DOMAIN hroute.Headers) :
                    OutValues(name) = StaticValuesOf(name, staticOrder, 1)

\* C21 amended: a header other than User-Agent that survived the allow-list
\* filter and is also a static header of the route goes out with its inbound
\* values followed by the static values (the static values are added, they do
\* not replace); User-Agent goes out with neither.
C21_StaticAdded ==
    outgoing.done =>
        \A name \in OutNames :
            Survived(name) /\ HasStatic(name) =>
                \E staticOrder \in Perms(DOMAIN hroute.Headers) :
                    OutValues(name) =
                        IF name = "User-Agent" THEN <<defaultUserAgent>>
                        ELSE inbound[name] \o StaticValuesOf(name, staticOrder, 1)

\* C21 witness: X-Fwd is allow-listed, inbound and static, and goes out with the
\* inbound value before the two static ones.
C21_Witness ==
    /\ outgoing.done
    /\ Survived("X-Fwd")
    /\ inbound["X-Fwd"] = <<"in1">>
    /\ "X-Fwd" \in DOMAIN hroute.Headers
    /\ hroute.Headers["X-Fwd"] = <<"v1", "v2">>
    /\ OutValues("X-Fwd") = <<"in1", "v1", "v2">>

\* C22: the outgoing User-Agent has exactly one value, the fixed gateway
\* identifier, whatever User-Agent values were inbound, allow-listed or static,
\* and no other spelling of the name is present.
C22_UserAgentFixed ==
    outgoing.done =>
        /\ "User-Agent" \in DOMAIN outgoing.h
        /\ outgoing.h["User-Agent"] = <<defaultUserAgent>>
        /\ \A n \in DOMAIN outgoing.h : Canon(n) = "User-Agent" => n = "User-Agent"

\* C22 witness: User-Agent is allow-listed and inbound and is a static header
\* with two values, and the rewrite has run.
C22_Witness ==
    /\ outgoing.done
    /\ Survived("User-Agent")
    /\ "User-Agent" \in DOMAIN hroute.Headers
    /\ hroute.Headers["User-Agent"] = <<"v1", "v2">>
    /\ outgoing.h["User-Agent"] = <<defaultUserAgent>>

(***************************************************************************)
(* The proxy handler (src/unnamed/part_003): ServeHTTP, the terminal       *)
(* handler of InitializeRouteHandlers, proxyRequest and its ErrorHandler.  *)
(*                                                                         *)
(* A request's context is derived from the server's reqCtx (BaseContext)   *)
(* and is also canceled when its caller goes away.  The backend of a       *)
(* request answers ("ok"), fails at the transport ("fail") or does not     *)
(* answer at all ("stall").                                                *)
(***************************************************************************)
Backends == {"ok", "fail", "stall"}

\* req.Context().Done() is closed / req.Context().Err() is context.Canceled
CtxCanceled(r) == reqCtxCanceled \/ reqs[r].gone

\* Chain.Clone: a new chain holding a copy of the middlewares.
Clone(mws) == [i \in 1..Len(mws) |-> mws[i]]

\* A mutation of ApplyGlobalMiddleware: the route's chain comes first.
ApplyGlobalMiddlewareRouteFirst(routes, middlewareChain, finalHandler) ==
    [p \in DOMAIN routes |->
        [m \in DOMAIN routes[p] |->
            LET withRoute == <<MwChain(routes[p][m].Middlewares)>> \o Clone(middlewareChain)
            IN  [routes[p][m] EXCEPT !.Handler = Then(withRoute, finalHandler)]]]

\* A mutation of ApplyGlobalMiddleware: the chain wraps the handler the route
\* already has, when it has one.
ApplyGlobalMiddlewareWrapsPrevious(routes, middlewareChain, finalHandler) ==
    [p \in DOMAIN routes |->
        [m \in DOMAIN routes[p] |->
            LET cloned == Clone(middlewareChain)
                withRoute == Append(cloned, MwChain(routes[p][m].Middlewares))
                inner == IF routes[p][m].Handler # NoHandler THEN routes[p][m].Handler
                         ELSE finalHandler
            IN  [routes[p][m] EXCEPT !.Handler = Then(withRoute, inner)]]]

\* A mutation of ApplyGlobalMiddleware: the combined chain is stored as the
\* route's own chain.
ApplyGlobalMiddlewareStoresChain(routes, middlewareChain, finalHandler) ==
    [p \in DOMAIN routes |->
        [m \in DOMAIN routes[p] |->
            LET cloned == Clone(middlewareChain)
                withRoute == cloned \o routes[p][m].Middlewares
            IN  [routes[p][m] EXCEPT !.Middlewares = withRoute,
                                     !.Handler = Then(withRoute, finalHandler)]]]

\* A mutation of ApplyGlobalMiddleware: a route is given a handler only when
\* there is a middleware to put around the final handler.
ApplyGlobalMiddlewareSkipsBare(routes, middlewareChain, finalHandler) ==
    [p \in DOMAIN routes |->
        [m \in DOMAIN routes[p] |->
            LET cloned == Clone(middlewareChain)
                withRoute == Append(cloned, MwChain(routes[p][m].Middlewares))
            IN  IF Len(middlewareChain) = 0 /\ Len(routes[p][m].Middlewares) = 0
                THEN routes[p][m]
                ELSE [routes[p][m] EXCEPT !.Handler = Then(withRoute, finalHandler)]]]

\* Router.ApplyGlobalMiddleware(middlewareChain, finalHandler)
ApplyGlobalMiddleware(routes, middlewareChain, finalHandler) ==
    [p \in DOMAIN routes |->
        [m \in DOMAIN routes[p] |->
            LET cloned == Clone(middlewareChain)
                withRoute == Append(cloned, MwChain(routes[p][m].Middlewares))
            IN  [routes[p][m] EXCEPT !.Handler = Then(withRoute, finalHandler)]]]

\* The terminal handler InitializeRouteHandlers gives to ApplyGlobalMiddleware.
ProxyTerminal == FinalHandler("proxy")

\* ProxyHandler.InitializeRouteHandlers(globalMiddleware)
InitializeRouteHandlers(routes, globalMiddleware) ==
    ApplyGlobalMiddleware(routes, globalMiddleware, ProxyTerminal)

RECURSIVE ServePre(_)
\* Serving a composed handler up to the point where its final handler is entered
\* or a middleware answers without delegating.
ServePre(h) ==
    IF h.kind = "final" THEN <<Ev(h.mw, "run")>>
    ELSE IF MwDelegates(h.mw) THEN <<Ev(h.mw, "before")>> \o ServePre(h.next[1])
         ELSE <<Ev(h.mw, "before")>>

RECURSIVE ServePost(_)
\* The rest of serving it: the post-logic of the middlewares that delegated.
ServePost(h) ==
    IF h.kind = "final" THEN <<>>
    ELSE IF MwDelegates(h.mw) THEN ServePost(h.next[1]) \o <<Ev(h.mw, "after")>>
         ELSE <<>>

RECURSIVE ReachesFinal(_)
\* Whether every middleware of the composed handler delegates.
ReachesFinal(h) ==
    IF h.kind = "final" THEN TRUE
    ELSE MwDelegates(h.mw) /\ ReachesFinal(h.next[1])

\* The handler returns: the response is complete and the pending post-logic runs.
Finish(req, status, body, connClose) ==
    [req EXCEPT !.state = "done", !.status = status, !.body = body,
                !.connClose = connClose, !.log = req.log \o req.post, !.post = <<>>]

\* http.Error(w, msg, code): the message is written followed by a newline.
HttpError(req, msg, code) == Finish(req, code, msg \o "\n", FALSE)

\* The targetURL proxyRequest builds from the route's target.
TargetURL(route) ==
    [Scheme |-> route.Target.Scheme, Host |-> route.Target.Host,
     Path |-> route.Target.Path, RawQuery |-> route.Target.RawQuery,
     Opaque |-> route.Target.Opaque]

\* The Director of httputil.NewSingleHostReverseProxy(target): the outgoing URL
\* gets the target's scheme and host and the target's path joined with the
\* inbound path by a single slash.  The target paths of the model do not end
\* with a slash and every inbound path starts with one, so the join is the
\* concatenation.
OriginalDirector(req, targetURL) ==
    [Scheme |-> targetURL.Scheme, Host |-> targetURL.Host,
     Path |-> targetURL.Path \o req.path]

\* A mutation of the Director: the path the original Director joined is kept.
DirectorKeepsJoined(req, targetURL) == OriginalDirector(req, targetURL)

\* proxy.Director as proxyRequest replaces it: the original one, then
\* req.URL.Path = targetURL.Path.
Director(req, targetURL) ==
    [OriginalDirector(req, targetURL) EXCEPT !.Path = targetURL.Path]

\* proxyRequest up to transport.RoundTrip: the Director has set the target and
\* rewritten the headers, the backend call is under way.
ProxyRequest(req, route) ==
    [req EXCEPT !.state = "proxying", !.contacted = req.contacted + 1,
                !.outPath = Director(req, TargetURL(route)).Path,
                !.outHost = Director(req, TargetURL(route)).Host]

\* A mutation of the terminal handler: the second lookup goes by the path and
\* takes a route of another method when the path has one.
TerminalHandlerOtherRoute(req, routes) ==
    LET others == DOMAIN routes[req.path] \ {req.method}
        m == IF others = {} THEN req.method ELSE CHOOSE x \in others : TRUE
    IN  ProxyRequest(req, routes[req.path][m])

\* The terminal handler: looks the route up again and proxies it.
TerminalHandler(req, routes) ==
    LET ref == GetRoute(routes, req.path, req.method)
    IN  IF ~ref.found THEN HttpError(req, "Route Not Found", 404)
        ELSE ProxyRequest(req, Deref(routes, ref))

\* A mutation of serving a composed handler: the terminal handler runs also when
\* a middleware answered without delegating.
RunHandlerAlwaysTerminal(req, h, routes) ==
    TerminalHandler([req EXCEPT !.log = ServePre(h), !.post = ServePost(h)], routes)

\* route.Handler.ServeHTTP(w, req) up to the backend call or the response of a
\* middleware that answers itself (204, as a CORS preflight).
RunHandler(req, h, routes) ==
    LET entered == [req EXCEPT !.log = ServePre(h), !.post = ServePost(h)]
    IN  IF ReachesFinal(h) THEN TerminalHandler(entered, routes)
        ELSE Finish(entered, 204, "", FALSE)

\* A mutation of ServeHTTP: the route is looked up before the context is checked.
ServeHTTPLookupFirst(req, canceled, routes) ==
    LET ref == GetRoute(routes, req.path, req.method)
    IN  IF ~ref.found THEN HttpError(req, "Route Not Found", 404)
        ELSE IF canceled
             THEN Finish(req, 503, "", TRUE)
             ELSE LET route == Deref(routes, ref)
                  IN  IF route.Handler # NoHandler
                      THEN RunHandler(req, route.Handler, routes)
                      ELSE ProxyRequest(req, route)

\* A mutation of ServeHTTP: an unmatched method of a configured path is 405.
ServeHTTPMethodNotAllowed(req, canceled, routes) ==
    IF canceled
    THEN Finish(req, 503, "", TRUE)
    ELSE LET ref == GetRoute(routes, req.path, req.method)
         IN  IF ~ref.found
             THEN (IF req.path \in DOMAIN routes
                   THEN HttpError(req, "Method Not Allowed", 405)
                   ELSE HttpError(req, "Route Not Found", 404))
             ELSE LET route == Deref(routes, ref)
                  IN  IF route.Handler # NoHandler
                      THEN RunHandler(req, route.Handler, routes)
                      ELSE ProxyRequest(req, route)

\* A mutation of ServeHTTP: no return after the route's handler has served, the
\* proxy handler goes on and proxies the request itself.
ServeHTTPFallsThrough(req, canceled, routes) ==
    IF canceled
    THEN Finish(req, 503, "", TRUE)
    ELSE LET ref == GetRoute(routes, req.path, req.method)
         IN  IF ~ref.found THEN HttpError(req, "Route Not Found", 404)
             ELSE LET route == Deref(routes, ref)
                  IN  IF route.Handler # NoHandler
                      THEN ProxyRequest(RunHandler(req, route.Handler, routes), route)
                      ELSE ProxyRequest(req, route)

\* A mutation of ServeHTTP: a global middleware is wrapped around the lookup, so
\* that it runs for a request that matches no route as well.
ServeHTTPGlobalOutside(req, canceled, routes) ==
    IF canceled
    THEN Finish(req, 503, "", TRUE)
    ELSE LET ref == GetRoute(routes, req.path, req.method)
             outer == <<MwFunc("B")>>
         IN  IF ~ref.found
             THEN HttpError([req EXCEPT !.log = Befores(outer), !.post = Afters(outer)],
                            "Route Not Found", 404)
             ELSE LET route == Deref(routes, ref)
                  IN  IF route.Handler # NoHandler
                      THEN RunHandler(req, route.Handler, routes)
                      ELSE ProxyRequest(req, route)

\* ProxyHandler.ServeHTTP(w, req), canceled telling whether req.Context() is done.
ServeHTTP(req, canceled, routes) ==
    IF canceled
    THEN Finish(req, 503, "", TRUE)
    ELSE LET ref == GetRoute(routes, req.path, req.method)
         IN  IF ~ref.found THEN HttpError(req, "Route Not Found", 404)
             ELSE LET route == Deref(routes, ref)
                  IN  IF route.Handler # NoHandler
                      THEN RunHandler(req, route.Handler, routes)
                      ELSE ProxyRequest(req, route)

\* A mutation of the ErrorHandler: every failure is a 502.
ErrorHandlerAlways502(req, canceled) ==
    [Finish(req, 502, "Gateway error", FALSE) EXCEPT !.canceledAtError = canceled]

\* proxy.ErrorHandler(w, r, err), canceled telling whether r.Context().Err() is
\* context.Canceled.  The error itself is not looked at.
ErrorHandler(req, canceled) ==
    IF ~canceled
    THEN [Finish(req, 502, "Gateway error", FALSE) EXCEPT !.canceledAtError = FALSE]
    ELSE [Finish(req, 503, "Gateway is shutting down", TRUE)
             EXCEPT !.canceledAtError = TRUE]

\* A request is read from a connection; its handler has not started yet.
Arrive(r, path, method, backend) ==
    /\ reqs[r].state = "none"
    /\ reqs' = [reqs EXCEPT ![r] = [NoReq EXCEPT !.state = "accepted", !.path = path,
                                                 !.method = method, !.backend = backend]]

\* The handler of request r runs: ProxyHandler.ServeHTTP.  precanceled records
\* whether the request's context was already done at that moment.
Dispatch(r) ==
    /\ reqs[r].state = "accepted"
    /\ reqs' = [reqs EXCEPT ![r] =
                  [ServeHTTP(reqs[r], CtxCanceled(r), router.Routes)
                      EXCEPT !.precanceled = CtxCanceled(r)]]

\* The caller of request r goes away, or cancels the context it gave.
CallerCancels(r) ==
    /\ reqs[r].state \in {"accepted", "proxying", "failed"}
    /\ ~reqs[r].gone
    /\ reqs' = [reqs EXCEPT ![r].gone = TRUE]

\* transport.RoundTrip returns the backend's response, which is relayed.
BackendResponds(r) ==
    /\ reqs[r].state = "proxying"
    /\ reqs[r].backend = "ok"
    /\ reqs' = [reqs EXCEPT ![r] = Finish(reqs[r], 200, "backend", FALSE)]

\* A mutation of the failure path: the backend is contacted again.
BackendFailsRetries(r) ==
    /\ reqs[r].state = "proxying"
    /\ reqs[r].backend = "fail"
    /\ reqs' = [reqs EXCEPT ![r].contacted = 2, ![r].backend = "ok"]

\* transport.RoundTrip returns an error of its own (connection refused, ...).
BackendFails(r) ==
    /\ reqs[r].state = "proxying"
    /\ reqs[r].backend = "fail"
    /\ reqs' = [reqs EXCEPT ![r].state = "failed", ![r].cause = "transport"]

\* transport.RoundTrip returns because the request's context is canceled.
RoundTripCanceled(r) ==
    /\ reqs[r].state = "proxying"
    /\ CtxCanceled(r)
    /\ reqs' = [reqs EXCEPT ![r].state = "failed", ![r].cause = "canceled"]

\* ReverseProxy calls the ErrorHandler with the error RoundTrip returned.
HandleError(r) ==
    /\ reqs[r].state = "failed"
    /\ reqs' = [reqs EXCEPT ![r] = ErrorHandler(reqs[r], CtxCanceled(r))]

(***************************************************************************)
(* SpecProxy: one request through a proxy handler whose router holds       *)
(* GET /foo (route middleware A) and POST /bar (route middleware S), with  *)
(* the route handlers initialised with the global chain [B] or left nil    *)
(* (as with the mock router of the proxy tests).                           *)
(***************************************************************************)
GatewayEndpoints ==
    << [Path |-> "/foo", Method |-> "GET", Target |-> "http://a/x",
        Headers |-> <<>>, AllowedHeaders |-> <<>>, Middlewares |-> <<"A">>],
       [Path |-> "/bar", Method |-> "POST", Target |-> "http://b",
        Headers |-> <<>>, AllowedHeaders |-> <<>>, Middlewares |-> <<"S", "A">>],
       [Path |-> "/bar", Method |-> "GET", Target |-> "http://a/x",
        Headers |-> <<>>, AllowedHeaders |-> <<>>, Middlewares |-> <<"A">>] >>

GatewayRegistry == [n \in MwNames |-> MwFunc(n)]

GlobalMiddlewares == <<MwFunc("B")>>

ReqPaths == Paths \cup {"/nope"}

\* The router as NewRouterWithRegistry built it, and after InitializeRouteHandlers.
BuiltRouter == NewRouterWithRegistry(GatewayEndpoints, GatewayRegistry)

InitializedRouter ==
    [BuiltRouter EXCEPT !.Routes = InitializeRouteHandlers(BuiltRouter.Routes,
                                                           GlobalMiddlewares)]

InitProxy ==
    /\ ChainIdle /\ HeadersIdle
    /\ endpoints = GatewayEndpoints
    /\ registry = GatewayRegistry
    /\ router \in {BuiltRouter, InitializedRouter}
    /\ GatewayIdle
    /\ lookup = [called |-> FALSE]
    /\ ProxyIdle
    /\ ServerIdle

ProxyFrame == UNCHANGED <<chainVars, routerVars, headerVars, reqCtxCanceled, serverVars>>

ArriveProxy ==
    /\ \E path \in ReqPaths, method \in Methods, backend \in Backends :
          Arrive(1, path, method, backend)
    /\ ProxyFrame

DispatchProxy == Dispatch(1) /\ ProxyFrame
CallerCancelsProxy == CallerCancels(1) /\ ProxyFrame
BackendRespondsProxy == BackendResponds(1) /\ ProxyFrame
BackendFailsProxy == BackendFails(1) /\ ProxyFrame
RoundTripCanceledProxy == RoundTripCanceled(1) /\ ProxyFrame
HandleErrorProxy == HandleError(1) /\ ProxyFrame

NextProxy ==
    \/ ArriveProxy
    \/ DispatchProxy
    \/ CallerCancelsProxy
    \/ BackendRespondsProxy
    \/ BackendFailsProxy
    \/ RoundTripCanceledProxy
    \/ HandleErrorProxy

SpecProxy == InitProxy /\ [][NextProxy]_vars

\* The response of the shutdown branch of the ErrorHandler.
IsShuttingDown503(req) ==
    req.status = 503 /\ req.connClose /\ req.body = "Gateway is shutting down"

\* The response of the other branch.
IsGatewayError502(req) ==
    req.status = 502 /\ req.body = "Gateway error" /\ ~req.connClose

\* C4 as stated: a failed backend call is answered 503, Connection: close,
\* "Gateway is shutting down" if the failure is because the context was
\* canceled, and 502 "Gateway error" for every other failure.
C4_Original ==
    \A r \in Reqs :
        (reqs[r].state = "done" /\ reqs[r].cause # Nil) =>
            /\ reqs[r].cause = "canceled" => IsShuttingDown503(reqs[r])
            /\ reqs[r].cause = "transport" => IsGatewayError502(reqs[r])

\* C4 amended: a failed backend call is answered 503, Connection: close,
\* "Gateway is shutting down" if the request's context is canceled when the
\* failure is handled (every failure caused by the cancellation is), and 502
\* "Gateway error" otherwise; exactly one of the two.
C4_ErrorMapping ==
    \A r \in Reqs :
        (reqs[r].state = "done" /\ reqs[r].cause # Nil) =>
            /\ reqs[r].canceledAtError => IsShuttingDown503(reqs[r])
            /\ ~reqs[r].canceledAtError => IsGatewayError502(reqs[r])
            /\ reqs[r].cause = "canceled" => reqs[r].canceledAtError
            /\ IsShuttingDown503(reqs[r]) # IsGatewayError502(reqs[r])
            /\ reqs[r].contacted = 1

\* C4 witness: a transport failure whose context was canceled before the
\* ErrorHandler ran, answered 503.
C4_Witness ==
    \E r \in Reqs :
        /\ reqs[r].state = "done"
        /\ reqs[r].cause = "transport"
        /\ reqs[r].canceledAtError
        /\ IsShuttingDown503(reqs[r])

\* C5: a request whose context is already canceled when serveRequest starts is
\* answered 503 with Connection: close and nothing else happens: an unmatched
\* route still yields 503, no middleware runs, no backend is contacted.
C5_PreCanceled ==
    \A r \in Reqs :
        (reqs[r].state # "none" /\ reqs[r].precanceled) =>
            /\ reqs[r].state = "done"
            /\ reqs[r].status = 503
            /\ reqs[r].connClose
            /\ reqs[r].body = ""
            /\ reqs[r].log = <<>>
            /\ reqs[r].contacted = 0

\* C5 witness: a request for a (path, method) that has no route, canceled before
\* its handler started, was answered 503.
C5_Witness ==
    \E r \in Reqs :
        /\ reqs[r].state = "done"
        /\ reqs[r].precanceled
        /\ ~GetRoute(router.Routes, reqs[r].path, reqs[r].method).found
        /\ reqs[r].status = 503

\* Whether request r had a live context when served and matched no route.
Unmatched(r) ==
    /\ reqs[r].state = "done"
    /\ ~reqs[r].precanceled
    /\ ~GetRoute(router.Routes, reqs[r].path, reqs[r].method).found

\* C6 as stated: such a request is answered 404 with body exactly
\* "Route Not Found".
C6_Original ==
    \A r \in Reqs :
        Unmatched(r) => (reqs[r].status = 404 /\ reqs[r].body = "Route Not Found")

\* C6 amended: such a request is answered 404 (never 405) with the body
\* "Route Not Found" followed by a newline, no middleware runs and no backend
\* is contacted.
C6_NotFound ==
    \A r \in Reqs :
        Unmatched(r) =>
            /\ reqs[r].status = 404
            /\ reqs[r].body = "Route Not Found\n"
            /\ reqs[r].log = <<>>
            /\ reqs[r].contacted = 0

\* C6 witness: a configured path requested with a method that is not configured
\* for it was answered 404.
C6_Witness ==
    \E r \in Reqs :
        /\ Unmatched(r)
        /\ reqs[r].path \in DOMAIN router.Routes
        /\ reqs[r].status = 404

\* Whether request r had a live context when served and matched a route.
Matched(r) ==
    /\ reqs[r].state \notin {"none", "accepted"}
    /\ ~reqs[r].precanceled
    /\ GetRoute(router.Routes, reqs[r].path, reqs[r].method).found

\* The route request r matched.
RouteOf(r) ==
    Deref(router.Routes, GetRoute(router.Routes, reqs[r].path, reqs[r].method))

\* C23: a matched request whose route has a composed handler is served by that
\* handler alone: what ran is exactly the handler's middlewares and, if they
\* all delegate, its terminal step, which contacts the backend once; the proxy
\* handler does not proxy it a second time.  A matched request whose route has
\* no handler is proxied directly: nothing runs before the one backend call.
\* So a request is proxied with no middleware only if its route has no handler.
C23_Delegates ==
    \A r \in Reqs :
        Matched(r) =>
            LET h == RouteOf(r).Handler
            IN  /\ h # NoHandler =>
                    /\ reqs[r].log \o reqs[r].post = ServePre(h) \o ServePost(h)
                    /\ reqs[r].contacted = (IF ReachesFinal(h) THEN 1 ELSE 0)
                /\ h = NoHandler =>
                    /\ reqs[r].log = <<>>
                    /\ reqs[r].post = <<>>
                    /\ reqs[r].contacted = 1
                /\ (reqs[r].log = <<>> /\ reqs[r].contacted = 1) => h = NoHandler

\* C23 witness: both paths.  A request served by a composed handler whose
\* middleware answered itself, the backend never contacted ...
C23_Witness ==
    \E r \in Reqs :
        /\ Matched(r)
        /\ RouteOf(r).Handler # NoHandler
        /\ ~ReachesFinal(RouteOf(r).Handler)
        /\ reqs[r].state = "done"
        /\ reqs[r].status = 204
        /\ reqs[r].contacted = 0

\* ... and a request whose route has no handler, proxied directly and answered
\* by the backend.
C23_WitnessDirect ==
    \E r \in Reqs :
        /\ Matched(r)
        /\ RouteOf(r).Handler = NoHandler
        /\ reqs[r].state = "done"
        /\ reqs[r].status = 200
        /\ reqs[r].log = <<>>

\* C24: the path of the outgoing backend request is exactly the path of the
\* matched route's target, whatever the inbound path; the inbound path is not
\* appended to it.
C24_TargetPath ==
    \A r \in Reqs :
        reqs[r].contacted > 0 =>
            /\ Matched(r)
            /\ reqs[r].outPath = RouteOf(r).Target.Path
            /\ reqs[r].outPath # RouteOf(r).Target.Path \o reqs[r].path

\* C24 witness: a request for /foo, whose route targets http://a/x, went to the
\* backend with the path /x and was answered.
C24_Witness ==
    \E r \in Reqs :
        /\ reqs[r].state = "done"
        /\ reqs[r].status = 200
        /\ reqs[r].path = "/foo"
        /\ RouteOf(r).Target.Path = "/x"
        /\ reqs[r].outPath = "/x"

\* The handler of a request runs when the request has been read, the transport
\* returns what the backend does or that the context is canceled, and the
\* ErrorHandler runs when the transport returned an error.  Nothing makes a
\* request arrive, a caller go away or a backend that does not answer answer.
ProxyFairness ==
    /\ WF_vars(DispatchProxy)
    /\ WF_vars(BackendRespondsProxy)
    /\ WF_vars(BackendFailsProxy)
    /\ WF_vars(RoundTripCanceledProxy)
    /\ WF_vars(HandleErrorProxy)

FairSpecProxy == SpecProxy /\ ProxyFairness

\* The terminal outcomes of a request.
Outcomes(req) ==
    {o \in {"503 pre-canceled", "404", "short-circuit", "backend response", "502",
            "503 shutting down"} :
        CASE o = "503 pre-canceled" ->
                 /\ req.precanceled /\ req.status = 503 /\ req.body = ""
                 /\ req.connClose /\ req.contacted = 0 /\ req.log = <<>>
          [] o = "404" ->
                 /\ ~req.precanceled /\ req.status = 404
                 /\ req.body = "Route Not Found\n" /\ req.contacted = 0
          [] o = "short-circuit" ->
                 /\ ~req.precanceled /\ req.status = 204 /\ req.contacted = 0
                 /\ req.log # <<>>
          [] o = "backend response" ->
                 /\ ~req.precanceled /\ req.status = 200 /\ req.body = "backend"
                 /\ req.contacted = 1 /\ req.cause = Nil
          [] o = "502" ->
                 /\ ~req.precanceled /\ IsGatewayError502(req)
                 /\ req.contacted = 1 /\ req.cause # Nil
          [] o = "503 shutting down" ->
                 /\ ~req.precanceled /\ IsShuttingDown503(req)
                 /\ req.contacted = 1 /\ req.cause # Nil}

\* C29: a request that is done has exactly one of the terminal outcomes
\* (503 pre-canceled, 404, a middleware's own response, the backend's
\* response, 502, 503 shutting down) and keeps it; the backend is contacted at
\* most once, also after it failed; and every request whose backend answers or
\* fails or whose context is canceled gets there: a failure of the backend call
\* always ends in the response of the ErrorHandler.
C29_OneOutcome ==
    /\ [](\A r \in Reqs :
            /\ reqs[r].contacted <= 1
            /\ reqs[r].state = "done" => Cardinality(Outcomes(reqs[r])) = 1
            /\ reqs[r].state # "done" => reqs[r].status = 0)
    /\ [][\A r \in Reqs : reqs[r].state = "done" => reqs'[r] = reqs[r]]_vars
    /\ \A r \in Reqs :
          /\ (reqs[r].state = "failed") ~> (reqs[r].state = "done")
          /\ (reqs[r].state # "none" /\ (reqs[r].backend # "stall" \/ CtxCanceled(r)))
                ~> (reqs[r].state = "done")

\* C29 witness: a request whose backend call failed at the transport was
\* answered 502 after a single contact.
C29_Witness ==
    \E r \in Reqs :
        /\ reqs[r].state = "done"
        /\ reqs[r].cause = "transport"
        /\ Outcomes(reqs[r]) = {"502"}
        /\ reqs[r].contacted = 1

(***************************************************************************)
(* Server.Start (src/internal/server/server.go): an http.Server whose      *)
(* requests share reqCtx, and an errgroup of two tasks.  The watcher       *)
(* waits for the group's context, arms shutdownCtx and the forced-cancel   *)
(* timer for ShutdownTimeout and returns what srv.Shutdown returns, its    *)
(* deferred timer.Stop() running on the way out.  The listener task runs   *)
(* srv.ListenAndServe.  Start returns gr.Wait().                           *)
(*                                                                         *)
(* srv.Shutdown marks the server as shutting down, closes the listener and *)
(* then polls: it returns nil when no connection is active and ctx.Err()   *)
(* when it finds shutdownCtx done while waiting for the next poll.         *)
(***************************************************************************)
Active == Cardinality({r \in Reqs : reqs[r].state \in {"accepted", "proxying", "failed"}})

\* A mutation of the errgroup: a task's error does not cancel the group's context.
GroupCtxDoneSignalOnly == sig

\* <-ctx.Done() of the errgroup's context: the parent is done, or the group
\* canceled it because a task returned an error.
GroupCtxDone == sig \/ groupCanceled

\* A mutation of the errgroup: the last non-nil error is kept.
GroupRecordLast(first, err) == IF err # Nil THEN err ELSE first

\* errgroup.Group.Go: the first non-nil error is kept.
GroupRecord(first, err) == IF first = Nil THEN err ELSE first

\* A mutation of the watcher: a deadline error of srv.Shutdown is dropped.
WatcherResultSwallowsDeadline(err) == IF err = "DeadlineExceeded" THEN Nil ELSE err

\* The watcher task's result: return srv.Shutdown(shutdownCtx).
WatcherResult(err) == err

\* A mutation of the listener task: every error of ListenAndServe is returned.
ListenerResultAny(err) == err

\* The listener task's result: an error of ListenAndServe other than
\* http.ErrServerClosed, else nil.
ListenerResult(err) == IF err # Nil /\ err # "ErrServerClosed" THEN err ELSE Nil

\* timer.Stop(): a timer that has not fired never will.
StopTimer(t) == IF t = "armed" THEN "stopped" ELSE t

\* The lifecycle signal: the context given to Start is canceled.
SignalFires ==
    /\ ~sig
    /\ ~startRet.returned
    /\ sig' = TRUE
    /\ UNCHANGED <<groupCanceled, groupErr, lpc, wpc, wres, inShutdown, listenerOpen,
                   elapsed, inFlightAtElapse,
                   inFlightAtShutdown, timer, startRet>>
    /\ UNCHANGED <<chainVars, routerVars, headerVars, proxyVars>>
    /\ UNCHANGED failures

\* The watcher passes <-ctx.Done() and arms shutdownCtx and the timer.
W_Wake ==
    /\ wpc = "wait"
    /\ GroupCtxDone
    /\ wpc' = "armed"
    /\ timer' = "armed"
    /\ UNCHANGED <<sig, groupCanceled, groupErr, lpc, wres, inShutdown, listenerOpen,
                   elapsed, inFlightAtElapse,
                   inFlightAtShutdown, startRet>>
    /\ UNCHANGED <<chainVars, routerVars, headerVars, proxyVars>>
    /\ UNCHANGED failures

\* srv.Shutdown starts: inShutdown is set and the listener closed.
W_ShutdownCall ==
    /\ wpc = "armed"
    /\ wpc' = "check"
    /\ inShutdown' = TRUE
    /\ listenerOpen' = FALSE
    /\ inFlightAtShutdown' = (Active > 0)
    /\ UNCHANGED <<sig, groupCanceled, groupErr, lpc, wres, elapsed, inFlightAtElapse,
                   timer, startRet>>
    /\ UNCHANGED <<chainVars, routerVars, headerVars, proxyVars>>
    /\ UNCHANGED failures

\* The watcher task returns err: the deferred timer.Stop() and cancel() run and
\* the errgroup records the result.
WatcherReturns(err) ==
    LET res == WatcherResult(err)
    IN  /\ wpc' = "done"
        /\ wres' = (IF err = Nil THEN "nil" ELSE err)
        /\ timer' = StopTimer(timer)
        /\ groupErr' = GroupRecord(groupErr, res)
        /\ failures' = (IF res # Nil THEN Append(failures, res) ELSE failures)
        /\ groupCanceled' = (groupCanceled \/ res # Nil)
        /\ UNCHANGED <<sig, lpc, inShutdown, listenerOpen, elapsed, inFlightAtElapse,
                       inFlightAtShutdown, startRet>>
        /\ UNCHANGED <<chainVars, routerVars, headerVars, proxyVars>>

\* A poll of srv.Shutdown finds every connection idle: Shutdown returns nil.
W_PollIdle ==
    /\ wpc = "check"
    /\ Active = 0
    /\ WatcherReturns(Nil)

\* A poll finds an active connection: Shutdown waits for shutdownCtx or the
\* next poll.
W_PollBusy ==
    /\ wpc = "check"
    /\ Active > 0
    /\ wpc' = "select"
    /\ UNCHANGED <<sig, groupCanceled, groupErr, lpc, wres, inShutdown, listenerOpen,
                   elapsed, inFlightAtElapse,
                   inFlightAtShutdown, timer, startRet>>
    /\ UNCHANGED <<chainVars, routerVars, headerVars, proxyVars>>
    /\ UNCHANGED failures

\* The poll timer of srv.Shutdown ticks.
W_Tick ==
    /\ wpc = "select"
    /\ wpc' = "check"
    /\ UNCHANGED <<sig, groupCanceled, groupErr, lpc, wres, inShutdown, listenerOpen,
                   elapsed, inFlightAtElapse,
                   inFlightAtShutdown, timer, startRet>>
    /\ UNCHANGED <<chainVars, routerVars, headerVars, proxyVars>>
    /\ UNCHANGED failures

\* srv.Shutdown finds shutdownCtx done: it returns context.DeadlineExceeded.
W_Deadline ==
    /\ wpc = "select"
    /\ elapsed
    /\ WatcherReturns("DeadlineExceeded")

\* ShutdownTimeout passes after the watcher armed shutdownCtx and the timer.
WindowElapses ==
    /\ timer # "none"
    /\ ~elapsed
    /\ elapsed' = TRUE
    /\ inFlightAtElapse' = (Active > 0)
    /\ UNCHANGED <<sig, groupCanceled, groupErr, lpc, wpc, wres, inShutdown, listenerOpen,
                   inFlightAtShutdown, timer, startRet>>
    /\ UNCHANGED <<chainVars, routerVars, headerVars, proxyVars>>
    /\ UNCHANGED failures

\* A mutation of the timer: it fires without waiting for ShutdownTimeout.
TimerFiresAtOnce ==
    /\ timer = "armed"
    /\ timer' = "fired"
    /\ reqCtxCanceled' = TRUE
    /\ UNCHANGED <<sig, groupCanceled, groupErr, lpc, wpc, wres, inShutdown, listenerOpen,
                   elapsed, inFlightAtElapse,
                   inFlightAtShutdown, startRet>>
    /\ UNCHANGED <<chainVars, routerVars, headerVars, reqs>>
    /\ UNCHANGED failures

\* The timer fires: cancelRequest() cancels reqCtx.
TimerFires ==
    /\ timer = "armed"
    /\ elapsed
    /\ timer' = "fired"
    /\ reqCtxCanceled' = TRUE
    /\ UNCHANGED <<sig, groupCanceled, groupErr, lpc, wpc, wres, inShutdown, listenerOpen,
                   elapsed, inFlightAtElapse,
                   inFlightAtShutdown, startRet>>
    /\ UNCHANGED <<chainVars, routerVars, headerVars, reqs>>
    /\ UNCHANGED failures

\* The listener task returns what ListenAndServe returned.
ListenerReturns(err) ==
    LET res == ListenerResult(err)
    IN  /\ lpc' = "done"
        /\ groupErr' = GroupRecord(groupErr, res)
        /\ failures' = (IF res # Nil THEN Append(failures, res) ELSE failures)
        /\ groupCanceled' = (groupCanceled \/ res # Nil)
        /\ UNCHANGED <<sig, wpc, wres, inShutdown, elapsed, inFlightAtElapse,
                       inFlightAtShutdown, timer,
                       startRet>>
        /\ UNCHANGED <<chainVars, routerVars, headerVars, proxyVars>>

\* srv.ListenAndServe starts: it refuses when the server is shutting down.
L_Start ==
    /\ lpc = "start"
    /\ IF inShutdown
       THEN ListenerReturns("ErrServerClosed") /\ UNCHANGED listenerOpen
       ELSE /\ lpc' = "listen"
            /\ UNCHANGED <<sig, groupCanceled, groupErr, wpc, wres, inShutdown,
                           listenerOpen, elapsed, inFlightAtElapse,
                   inFlightAtShutdown, timer, startRet>>
            /\ UNCHANGED <<chainVars, routerVars, headerVars, proxyVars>>
            /\ UNCHANGED failures

\* net.Listen fails (the port is taken): ListenAndServe returns that error.
L_BindFails ==
    /\ lpc = "listen"
    /\ ListenerReturns("bind")
    /\ UNCHANGED listenerOpen

\* net.Listen succeeds and srv.Serve registers the listener, unless the server
\* is shutting down by then.
L_Serve ==
    /\ lpc = "listen"
    /\ IF inShutdown
       THEN ListenerReturns("ErrServerClosed") /\ UNCHANGED listenerOpen
       ELSE /\ lpc' = "serving"
            /\ listenerOpen' = TRUE
            /\ UNCHANGED <<sig, groupCanceled, groupErr, wpc, wres, inShutdown,
                           elapsed, inFlightAtElapse,
                   inFlightAtShutdown, timer, startRet>>
            /\ UNCHANGED <<chainVars, routerVars, headerVars, proxyVars>>
            /\ UNCHANGED failures

\* Accept fails on the listener srv.Shutdown closed: Serve returns ErrServerClosed.
L_Closed ==
    /\ lpc = "serving"
    /\ inShutdown
    /\ ListenerReturns("ErrServerClosed")
    /\ UNCHANGED listenerOpen

\* Accept fails for good on the open listener (an error that is not temporary):
\* Serve closes the listener and ListenAndServe returns the error.  The
\* connections already accepted go on being served.
L_AcceptFails ==
    /\ lpc = "serving"
    /\ ~inShutdown
    /\ ListenerReturns("accept")
    /\ listenerOpen' = FALSE

\* gr.Wait(): both tasks have returned; Start returns the group's first error.
StartReturns ==
    /\ lpc = "done"
    /\ wpc = "done"
    /\ ~startRet.returned
    /\ startRet' = [returned |-> TRUE, err |-> groupErr]
    /\ groupCanceled' = TRUE
    /\ UNCHANGED <<sig, groupErr, lpc, wpc, wres, inShutdown, listenerOpen,
                   elapsed, inFlightAtElapse, inFlightAtShutdown, timer>>
    /\ UNCHANGED <<chainVars, routerVars, headerVars, proxyVars>>
    /\ UNCHANGED failures

(***************************************************************************)
(* SpecServer: Start serving the proxy handler of SpecProxy with its       *)
(* route handlers initialised (heimdall.NewWithRegistry), requests         *)
(* arriving while the listener is open.  The signal may already have       *)
(* fired when Start is called.                                             *)
(***************************************************************************)
ServerPaths == {"/foo", "/nope"}

InitServer ==
    /\ ChainIdle /\ HeadersIdle
    /\ endpoints = GatewayEndpoints
    /\ registry = GatewayRegistry
    /\ router = InitializedRouter
    /\ GatewayIdle
    /\ lookup = [called |-> FALSE]
    /\ ProxyIdle
    /\ sig \in BOOLEAN
    /\ groupCanceled = FALSE
    /\ groupErr = Nil
    /\ lpc = "start"
    /\ wpc = "wait"
    /\ wres = "pending"
    /\ inShutdown = FALSE
    /\ listenerOpen = FALSE
    /\ elapsed = FALSE
    /\ inFlightAtElapse = FALSE
    /\ inFlightAtShutdown = FALSE
    /\ timer = "none"
    /\ startRet = NotReturned
    /\ failures = <<>>

\* The server accepts a connection and reads a request from it.
ArriveServer ==
    /\ lpc = "serving"
    /\ listenerOpen
    /\ \E r \in Reqs, path \in ServerPaths, backend \in Backends :
          /\ \A q \in Reqs : q < r => reqs[q].state # "none"
          /\ Arrive(r, path, "GET", backend)
    /\ inFlightAtElapse' = (inFlightAtElapse \/ elapsed)
    /\ UNCHANGED <<sig, groupCanceled, groupErr, lpc, wpc, wres, inShutdown, listenerOpen,
                   elapsed, inFlightAtShutdown, timer, startRet>>
    /\ UNCHANGED <<chainVars, routerVars, headerVars, reqCtxCanceled>>
    /\ UNCHANGED failures

DispatchServer == (\E r \in Reqs : Dispatch(r)) /\ ProxyFrame
CallerCancelsServer == (\E r \in Reqs : CallerCancels(r)) /\ ProxyFrame
BackendRespondsServer == (\E r \in Reqs : BackendResponds(r)) /\ ProxyFrame
BackendFailsServer == (\E r \in Reqs : BackendFails(r)) /\ ProxyFrame
RoundTripCanceledServer == (\E r \in Reqs : RoundTripCanceled(r)) /\ ProxyFrame
HandleErrorServer == (\E r \in Reqs : HandleError(r)) /\ ProxyFrame

NextServer ==
    \/ SignalFires
    \/ W_Wake
    \/ W_ShutdownCall
    \/ W_PollIdle
    \/ W_PollBusy
    \/ W_Tick
    \/ W_Deadline
    \/ WindowElapses
    \/ TimerFires
    \/ L_Start
    \/ L_BindFails
    \/ L_Serve
    \/ L_Closed
    \/ StartReturns
    \/ ArriveServer
    \/ DispatchServer
    \/ CallerCancelsServer
    \/ BackendRespondsServer
    \/ BackendFailsServer
    \/ RoundTripCanceledServer
    \/ HandleErrorServer

SpecServer == InitServer /\ [][NextServer]_vars

\* Every step of the two tasks, of the timers and of the handlers is eventually
\* taken when it stays possible; a backend that answers or fails does so.  The
\* select of srv.Shutdown picks a ready case at random, so the deadline is
\* taken if it is ready again and again.  Nothing makes the signal fire, a
\* request arrive or a caller go away.
ServerFairness ==
    /\ WF_vars(W_Wake)
    /\ WF_vars(W_ShutdownCall)
    /\ WF_vars(W_PollIdle)
    /\ WF_vars(W_PollBusy)
    /\ WF_vars(W_Tick)
    /\ SF_vars(W_Deadline)
    /\ WF_vars(WindowElapses)
    /\ WF_vars(TimerFires)
    /\ WF_vars(L_Start)
    /\ WF_vars(L_BindFails \/ L_Serve)
    /\ WF_vars(L_Closed)
    /\ WF_vars(StartReturns)
    /\ WF_vars(DispatchServer)
    /\ WF_vars(BackendRespondsServer)
    /\ WF_vars(BackendFailsServer)
    /\ WF_vars(RoundTripCanceledServer)
    /\ WF_vars(HandleErrorServer)

FairSpecServer == SpecServer /\ ServerFairness

\* C7: if a request is still in flight when the shutdown window elapses, the
\* shared request context is canceled (or its timer is still to fire), in every
\* interleaving of the timer firing and the shutdown wait timing out.
C7_ForcedCancel ==
    (elapsed /\ inFlightAtElapse) => (reqCtxCanceled \/ timer = "armed")

\* C8: a request whose backend stalls, in flight when the signal fires,
\* eventually receives a 503 response with body "Gateway is shutting down".
C8_StalledGets503 ==
    \A r \in Reqs :
        (sig /\ wpc = "wait" /\ reqs[r].state = "proxying" /\ reqs[r].backend = "stall")
            ~> (reqs[r].state = "done" /\ reqs[r].status = 503
                /\ reqs[r].body = "Gateway is shutting down")

CleanStop ==
    (startRet.returned /\ groupErr # "bind") =>
        /\ sig
        /\ wres = "nil" => startRet.err = Nil
        /\ ~inFlightAtShutdown => wres = "nil"

C11_BindFailureReturns ==
    /\ [](startRet.returned /\ groupErr = "bind" => startRet.err = "bind")
    /\ ((lpc = "done" /\ groupErr = "bind")
            ~> (startRet.returned /\ startRet.err = "bind"))

\* C11 witness: Start returned the bind error although the signal never fired.
C11_Witness ==
    /\ startRet.returned
    /\ startRet.err = "bind"
    /\ ~sig
    /\ wres = "nil"

(***************************************************************************)
(* SpecStart: SpecServer with a listener that may also fail while serving, *)
(* so that either task, or both, may fail.                                 *)
(***************************************************************************)
NextStart == NextServer \/ L_AcceptFails

SpecStart == InitServer /\ [][NextStart]_vars

\* C27: Start returns only after both the listener task and the watcher task
\* have returned, and it returns the error of the first task that returned
\* one (a bind or accept error of the listener, the deadline error of the
\* shutdown wait), and nil if neither did; a listener stopped by the shutdown
\* is not a failure.
C27_WaitsForBoth ==
    startRet.returned =>
        /\ lpc = "done"
        /\ wpc = "done"
        /\ wres # "pending"
        /\ startRet.err = (IF failures = <<>> THEN Nil ELSE failures[1])
        /\ \A i \in DOMAIN failures : failures[i] # "ErrServerClosed"

\* C27 witness: the listener failed while a request was in flight, the
\* shutdown it caused timed out, and Start returned the listener's error, the
\* first of the two.
C27_Witness ==
    /\ startRet.returned
    /\ failures = <<"accept", "DeadlineExceeded">>
    /\ startRet.err = "accept"

\* Whether request r, whose caller is still there, was answered 503: by the
\* pre-canceled branch of ServeHTTP or by the shutdown branch of the ErrorHandler.
Answered503(r) ==
    /\ reqs[r].state = "done"
    /\ ~reqs[r].gone
    /\ reqs[r].status = 503

\* C28 as stated: the shared request context is not canceled while the
\* lifecycle signal has not fired nor before the shutdown window has elapsed,
\* and no request whose caller is still there is answered 503 before then.
C28_Original ==
    /\ reqCtxCanceled => (sig /\ elapsed)
    /\ \A r \in Reqs : Answered503(r) => (sig /\ elapsed)

\* C28 amended: the shared request context is canceled only by the timer,
\* after the shutdown window has elapsed, the window being armed when the
\* watcher wakes: when the lifecycle signal has fired or the listener task has
\* failed.  A request whose caller is still there is answered 503 only after
\* that; one that finishes within the window completes normally.
C28_NoEarlyCancel ==
    /\ reqCtxCanceled =>
          /\ elapsed
          /\ timer = "fired"
          /\ wpc # "wait"
          /\ sig \/ failures # <<>>
    /\ \A r \in Reqs : Answered503(r) => (reqCtxCanceled /\ elapsed)

\* C28 witness: the signal fired with a request in flight, the request was
\* answered by its backend within the window and Start returned, the shared
\* context never canceled.
C28_Witness ==
    /\ sig
    /\ inFlightAtShutdown
    /\ ~elapsed
    /\ ~reqCtxCanceled
    /\ startRet.returned
    /\ \E r \in Reqs : reqs[r].state = "done" /\ reqs[r].status = 200

(***************************************************************************)
(* Chain.Add and Chain.Clone on Go slices (src/unnamed/part_006).  A slice *)
(* is a header (backing array, len, cap); append writes into the spare     *)
(* cells of the backing array when there are any and allocates a new array *)
(* otherwise.  Two headers over one array see each other's writes.         *)
(***************************************************************************)
CloneNames == {"A", "B"}

\* A cell of a backing array that no slice has written.
Blank == MwFunc("-")

\* The capacity append gives a slice of capacity old that must hold needed
\* elements (doubling, for the small slices of interface values built here).
GrowCap(old, needed) == IF needed > 2 * old THEN needed ELSE 2 * old

\* The elements a slice header shows.
Contents(hp, s) == [i \in 1..s.len |-> hp[s.arr][i]]

\* append(s, vals...): the heap and the slice header it returns.
SliceAppend(hp, s, vals) ==
    LET n == s.len + Len(vals)
    IN  IF Len(vals) = 0 THEN [heap |-> hp, slice |-> s]
        ELSE IF n <= s.cap
        THEN [heap |-> [hp EXCEPT ![s.arr] =
                           [i \in 1..s.cap |->
                               IF i > s.len /\ i <= n THEN vals[i - s.len] ELSE @[i]]],
              slice |-> [s EXCEPT !.len = n]]
        ELSE LET newcap == GrowCap(s.cap, n)
                 cells == [i \in 1..newcap |->
                              IF i <= s.len THEN hp[s.arr][i]
                              ELSE IF i <= n THEN vals[i - s.len] ELSE Blank]
             IN  [heap |-> Append(hp, cells),
                  slice |-> [s EXCEPT !.arr = Len(hp) + 1, !.len = n, !.cap = newcap]]

\* c.Add(m): c.middlewares = append(c.middlewares, m)
ChainAdd(hp, c, m) == SliceAppend(hp, c, <<m>>)

\* A mutation of Clone: the clone takes the original's slice as it is.
ChainCloneShared(hp, c) == [heap |-> hp, slice |-> c]

\* c.Clone(): a new chain whose empty slice gets the original's elements appended.
ChainClone(hp, c) == SliceAppend(hp, NewChain, Contents(hp, c))

\* The handler composed from a chain: c.Then(final).
Composed(hp, c) == Then(Contents(hp, c), FinalHandler("final"))

InitClone ==
    /\ ChainIdle /\ RouterIdle /\ HeadersIdle /\ ProxyIdle /\ ServerIdle

CloneFrame ==
    UNCHANGED <<chain, handler, composedFrom, order, regVars, routerVars, headerVars,
                proxyVars, serverVars>>

\* c1.Add(m)
AddOriginal ==
    /\ c1.len <= MaxChain
    /\ \E n \in CloneNames :
          LET r == ChainAdd(arrays, c1, MwFunc(n))
          IN  arrays' = r.heap /\ c1' = r.slice
    /\ UNCHANGED c2
    /\ CloneFrame

\* c2 := c1.Clone()
CloneStep ==
    /\ ~c2.made
    /\ LET r == ChainClone(arrays, c1)
       IN  arrays' = r.heap /\ c2' = r.slice
    /\ UNCHANGED c1
    /\ CloneFrame

\* c2.Add(m)
AddCloned ==
    /\ c2.made
    /\ c2.len <= MaxChain
    /\ \E n \in CloneNames :
          LET r == ChainAdd(arrays, c2, MwFunc(n))
          IN  arrays' = r.heap /\ c2' = r.slice
    /\ UNCHANGED c1
    /\ CloneFrame

NextClone == AddOriginal \/ CloneStep \/ AddCloned

SpecClone == InitClone /\ [][NextClone]_vars

\* C12: after c2 = c1.Clone(), an Add on c2 leaves the handler composed from c1
\* unchanged and an Add on c1 leaves the handler composed from c2 unchanged;
\* the clone starts with the original's middlewares.
C12_CloneIndependent ==
    [][/\ (c2.made /\ c2' # c2) => Composed(arrays', c1') = Composed(arrays, c1)
       /\ (c2.made /\ c1' # c1) => Composed(arrays', c2') = Composed(arrays, c2)
       /\ (~c2.made /\ c2'.made) => Composed(arrays', c2') = Composed(arrays, c1)]_vars

\* C12 witness: both chains were added to after the clone was taken of a chain
\* whose backing array had a spare cell, and they differ.
C12_Witness ==
    /\ c2.made
    /\ c1.len > 3 /\ c2.len > 3
    /\ c1.cap > 3
    /\ Contents(arrays, c1) # Contents(arrays, c2)
    /\ Contents(arrays, c1)[1] = Contents(arrays, c2)[1]

(***************************************************************************)
(* The middleware registry (src/unnamed/part_009) under two concurrent     *)
(* callers.  Register takes the write lock, Get and GetMultiple the read   *)
(* lock; every read and write of the map is a step of its own, so that     *)
(* only the lock keeps the steps of two calls apart.                       *)
(***************************************************************************)
RegNames == {"x", "y"}             \* names that get registered
AskNames == RegNames \cup {"z"}    \* names that are asked for
RegMws == {MwFunc("A"), MwFunc("B")}

\* A mutation of the lock: it is granted whoever holds it.
CanLockAlways(mx) == TRUE

\* r.mutex.Lock() can return: no writer and no reader holds the mutex.
CanLock(mx) == mx.writer = 0 /\ mx.readers = {}

\* r.mutex.RLock() can return: no writer holds the mutex.
CanRLock(mx) == mx.writer = 0

\* A mutation of Register: the name is never found to exist.
RegisterExistsNever(reg, name) == FALSE

\* _, exists := r.middlewares[name]
RegisterExists(reg, name) == name \in DOMAIN reg

\* r.middlewares[name] = middleware
RegisterStore(reg, name, mw) ==
    [n \in DOMAIN reg \cup {name} |-> IF n = name THEN mw ELSE reg[n]]

\* The error of a duplicate registration.
AlreadyRegistered == "already registered"

\* A mutation of the loop body: a name that is not found is skipped.
GetMultipleVisitSkipsMissing(reg, name, acc) ==
    IF name \in DOMAIN reg
    THEN [acc EXCEPT !.result = Append(acc.result, reg[name])]
    ELSE acc

\* One iteration of the loop of GetMultiple.
GetMultipleVisit(reg, name, acc) ==
    IF name \in DOMAIN reg
    THEN [acc EXCEPT !.result = Append(acc.result, reg[name])]
    ELSE [acc EXCEPT !.missing = Append(acc.missing, name)]

RegFrame ==
    UNCHANGED <<chain, handler, composedFrom, order, cloneVars, routerVars, headerVars,
                proxyVars, serverVars, defaults>>

\* Caller p calls Register(name, mw), Get(name) or GetMultiple(names).
CallRegister(p) ==
    /\ calls[p].pc = "idle"
    /\ \E name \in RegNames, mw \in RegMws :
          calls' = [calls EXCEPT ![p] =
                      [NoCall EXCEPT !.pc = "lock", !.op = "register",
                                     !.name = name, !.mw = mw]]
    /\ UNCHANGED <<mregistry, mutex, registered>>
    /\ RegFrame

CallGet(p) ==
    /\ calls[p].pc = "idle"
    /\ \E name \in AskNames :
          calls' = [calls EXCEPT ![p] =
                      [NoCall EXCEPT !.pc = "rlock", !.op = "get", !.name = name]]
    /\ UNCHANGED <<mregistry, mutex, registered>>
    /\ RegFrame

CallGetMultiple(p) ==
    /\ calls[p].pc = "idle"
    /\ \E names \in SeqsUpTo(AskNames, MaxNames) :
          calls' = [calls EXCEPT ![p] =
                      [NoCall EXCEPT !.pc = "rlock", !.op = "getMultiple",
                                     !.names = names]]
    /\ UNCHANGED <<mregistry, mutex, registered>>
    /\ RegFrame

\* r.mutex.Lock() returns for caller p.
Lock(p) ==
    /\ calls[p].pc = "lock"
    /\ CanLock(mutex)
    /\ mutex' = [mutex EXCEPT !.writer = p]
    /\ calls' = [calls EXCEPT ![p].pc = "check", ![p].seen = mregistry]
    /\ UNCHANGED <<mregistry, registered>>
    /\ RegFrame

\* r.mutex.RLock() returns for caller p.
RLock(p) ==
    /\ calls[p].pc = "rlock"
    /\ CanRLock(mutex)
    /\ mutex' = [mutex EXCEPT !.readers = @ \cup {p}]
    /\ calls' = [calls EXCEPT ![p].pc = "read", ![p].i = 1, ![p].seen = mregistry]
    /\ UNCHANGED <<mregistry, registered>>
    /\ RegFrame

\* Register: the existence check; a name that exists ends the call with the error.
RegisterCheck(p) ==
    /\ calls[p].pc = "check"
    /\ LET exists == RegisterExists(mregistry, calls[p].name)
       IN  calls' = [calls EXCEPT ![p].exists = exists,
                                  ![p].err = IF exists THEN AlreadyRegistered ELSE Nil,
                                  ![p].pc = IF exists THEN "unlock" ELSE "store"]
    /\ UNCHANGED <<mregistry, mutex, registered>>
    /\ RegFrame

\* Register: the store.
RegisterPut(p) ==
    /\ calls[p].pc = "store"
    /\ mregistry' = RegisterStore(mregistry, calls[p].name, calls[p].mw)
    /\ registered' = Append(registered, [name |-> calls[p].name, mw |-> calls[p].mw])
    /\ calls' = [calls EXCEPT ![p].pc = "unlock"]
    /\ UNCHANGED mutex
    /\ RegFrame

\* Get: the map read.
GetRead(p) ==
    /\ calls[p].pc = "read"
    /\ calls[p].op = "get"
    /\ LET g == RegistryGet(mregistry, calls[p].name)
       IN  calls' = [calls EXCEPT ![p].exists = g.exists,
                                  ![p].result = IF g.exists THEN <<g.mw>> ELSE <<>>,
                                  ![p].pc = "unlock"]
    /\ UNCHANGED <<mregistry, mutex, registered>>
    /\ RegFrame

\* GetMultiple: one iteration of the loop, or its end.
GetMultipleRead(p) ==
    /\ calls[p].pc = "read"
    /\ calls[p].op = "getMultiple"
    /\ calls' = [calls EXCEPT ![p] =
                  IF calls[p].i > Len(calls[p].names)
                  THEN [calls[p] EXCEPT !.pc = "unlock"]
                  ELSE [GetMultipleVisit(mregistry, calls[p].names[calls[p].i], calls[p])
                           EXCEPT !.i = calls[p].i + 1]]
    /\ UNCHANGED <<mregistry, mutex, registered>>
    /\ RegFrame

\* The deferred Unlock or RUnlock; the call returns what it holds in this state
\* and the caller is free for its next call.
Unlock(p) ==
    /\ calls[p].pc = "unlock"
    /\ mutex' = IF calls[p].op = "register"
                THEN [mutex EXCEPT !.writer = IF @ = p THEN 0 ELSE @]
                ELSE [mutex EXCEPT !.readers = @ \ {p}]
    /\ calls' = [calls EXCEPT ![p] = NoCall]
    /\ UNCHANGED <<mregistry, registered>>
    /\ RegFrame

InitRegistry ==
    /\ ChainIdle /\ RouterIdle /\ HeadersIdle /\ ProxyIdle /\ ServerIdle

NextRegistry ==
    \E p \in Callers :
        \/ CallRegister(p)
        \/ CallGet(p)
        \/ CallGetMultiple(p)
        \/ Lock(p)
        \/ RLock(p)
        \/ RegisterCheck(p)
        \/ RegisterPut(p)
        \/ GetRead(p)
        \/ GetMultipleRead(p)
        \/ Unlock(p)

SpecRegistry == InitRegistry /\ [][NextRegistry]_vars

\* Whether caller p is about to return from a call of op.
Returning(p, op) == calls[p].op = op /\ calls[p].pc = "unlock"

\* C13: Register(name, m) on a registry that already holds name fails with the
\* "already registered" error and leaves the registry unchanged (Get(name)
\* still returns the first middleware); on a registry that does not hold name
\* it succeeds and Get(name) then returns m.
C13_Register ==
    \A p \in Callers :
        Returning(p, "register") =>
            LET c == calls[p]
            IN  /\ c.name \in DOMAIN c.seen =>
                    /\ c.err = AlreadyRegistered
                    /\ mregistry = c.seen
                    /\ RegistryGet(mregistry, c.name) = [mw |-> c.seen[c.name], exists |-> TRUE]
                /\ c.name \notin DOMAIN c.seen =>
                    /\ c.err = Nil
                    /\ RegistryGet(mregistry, c.name) = [mw |-> c.mw, exists |-> TRUE]
                    /\ DOMAIN mregistry = DOMAIN c.seen \cup {c.name}
                    /\ \A n \in DOMAIN c.seen : mregistry[n] = c.seen[n]

\* C13 witness: a second registration of a name with another middleware is
\* about to return the error, the first middleware still registered.
C13_Witness ==
    \E p \in Callers :
        /\ Returning(p, "register")
        /\ calls[p].err = AlreadyRegistered
        /\ calls[p].name \in DOMAIN mregistry
        /\ mregistry[calls[p].name] # calls[p].mw

\* The middlewares of the registered names of a list, and its unregistered
\* names, both in input order.
ResolvedOf(reg, names) ==
    LET found == SelectSeq(names, LAMBDA n : n \in DOMAIN reg)
    IN  [i \in 1..Len(found) |-> reg[found[i]]]

MissingOf(reg, names) == SelectSeq(names, LAMBDA n : n \notin DOMAIN reg)

\* C14: GetMultiple(names) returns the middlewares of the registered names in
\* input order and the unregistered names in input order; the two lists account
\* for every input position, and no step of the call modifies the registry.
C14_GetMultiple ==
    /\ [](\A p \in Callers :
            Returning(p, "getMultiple") =>
                /\ calls[p].result = ResolvedOf(calls[p].seen, calls[p].names)
                /\ calls[p].missing = MissingOf(calls[p].seen, calls[p].names)
                /\ Len(calls[p].result) + Len(calls[p].missing) = Len(calls[p].names))
    /\ [][\A p \in Callers :
            (calls[p].op = "getMultiple" /\ calls'[p] # calls[p])
                => mregistry' = mregistry]_vars

\* C14 witness: a list whose first name is not registered and whose second is.
C14_Witness ==
    \E p \in Callers :
        /\ Returning(p, "getMultiple")
        /\ Len(calls[p].names) = 2
        /\ calls[p].names[1] \notin DOMAIN calls[p].seen
        /\ calls[p].names[2] \in DOMAIN calls[p].seen
        /\ calls[p].result = <<calls[p].seen[calls[p].names[2]]>>
        /\ calls[p].missing = <<calls[p].names[1]>>

\* Whether caller p holds the lock its call takes.
InSection(p) == calls[p].pc \in {"check", "store", "read", "unlock"}

\* C15: writers are serialized against each other and against readers: a
\* caller inside Register is alone inside the registry; what a caller inside
\* Get or GetMultiple saw when it entered is still the registry (no register
\* happens between two of its reads); a name is registered at most once, so of
\* two concurrent registrations of one name exactly one succeeds.
C15_Serialized ==
    /\ \A p, q \in Callers :
          (p # q /\ InSection(p) /\ InSection(q)) =>
              (calls[p].op # "register" /\ calls[q].op # "register")
    /\ \A p \in Callers :
          (InSection(p) /\ calls[p].op # "register") => mregistry = calls[p].seen
    /\ \A p \in Callers :
          calls[p].pc \in {"check", "store"} => mregistry = calls[p].seen
    /\ \A i, j \in 1..Len(registered) :
          registered[i].name = registered[j].name => i = j
    /\ \A i \in 1..Len(registered) :
          /\ registered[i].name \in DOMAIN mregistry
          /\ mregistry[registered[i].name] = registered[i].mw
    /\ \A p \in Callers :
          (Returning(p, "register") /\ calls[p].err = Nil) =>
              \E i \in 1..Len(registered) :
                  registered[i] = [name |-> calls[p].name, mw |-> calls[p].mw]

\* C15 witness: two callers registered one name concurrently; one has stored
\* its middleware and is about to return without error while the other still
\* waits for the lock.
C15_Witness ==
    \E p, q \in Callers :
        /\ p # q
        /\ Returning(p, "register") /\ calls[p].err = Nil
        /\ calls[q].op = "register" /\ calls[q].pc = "lock"
        /\ calls[q].name = calls[p].name
        /\ calls[q].mw # calls[p].mw

(***************************************************************************)
(* Gateway construction (src/heimdall.go, NewWithRegistry): the router is  *)
(* built from the configured endpoints, the global chain from the          *)
(* configured names, and every route's handler is composed.                *)
(***************************************************************************)
\* NewWithRegistry, from the loaded configuration on.
NewWithRegistry(eps, names, reg) ==
    LET r == NewRouterWithRegistry(eps, reg)
    IN  IF r.err # Nil
        THEN [built |-> FALSE, err |-> r.err, Routes |-> <<>>, globalMiddlewares |-> <<>>]
        ELSE LET global == IF Len(names) > 0 THEN GetMultiple(reg, names).result
                           ELSE <<>>
             IN  [built |-> TRUE, err |-> Nil,
                  Routes |-> InitializeRouteHandlers(r.Routes, global),
                  globalMiddlewares |-> global]

BuildEndpointConfigs ==
    [Path : Paths, Method : {"GET"}, Target : {"http://b", "://invalid"},
     Headers : {<<>>}, AllowedHeaders : {<<>>},
     Middlewares : {<<>>, <<"B", "absent", "A">>}]

BuildRegistries ==
    {EmptyRegistry, [n \in {"A"} |-> MwFunc(n)], [n \in {"A", "B"} |-> MwFunc(n)]}

BuildGlobalNames == {<<>>, <<"absent">>, <<"B", "absent", "A">>}

InitBuild ==
    /\ ChainIdle /\ HeadersIdle /\ ProxyIdle /\ ServerIdle
    /\ endpoints \in SeqsUpTo(BuildEndpointConfigs, MaxEndpoints)
    /\ registry \in BuildRegistries
    /\ router = NoRouter
    /\ lookup = [called |-> FALSE]
    /\ gwNames \in BuildGlobalNames
    /\ AdminIdle
    /\ gateway = NoGateway
    /\ use = NoUse
    /\ used = <<>>
    /\ served = NoServed
    /\ raced = FALSE

\* gateway, err := NewWithRegistry(configPath, registry)
NewGatewayStep ==
    /\ gateway = NoGateway
    /\ gateway' = NewWithRegistry(endpoints, gwNames, registry)
    /\ UNCHANGED <<endpoints, registry, router, lookup, gwNames, use, used, served, raced>>
    /\ UNCHANGED adminVars
    /\ UNCHANGED <<chainVars, headerVars, proxyVars, serverVars>>

NextBuild == NewRouterStep \/ NewGatewayStep

SpecBuild == InitBuild /\ [][NextBuild]_vars

\* Whether some endpoint definition's target fails to parse.
SomeBadTarget == \E i \in 1..Len(endpoints) : ParseURL(endpoints[i].Target).err # Nil

\* C16: if any one endpoint's target URL fails to parse, whatever its position,
\* router construction returns an error and no router, and gateway construction
\* an error and no gateway; otherwise both succeed.
C16_AllOrNothing ==
    /\ router # NoRouter =>
          IF SomeBadTarget
          THEN router.err # Nil /\ ~router.built /\ router.Routes = <<>>
          ELSE router.err = Nil /\ router.built
    /\ gateway # NoGateway =>
          IF SomeBadTarget
          THEN gateway.err # Nil /\ ~gateway.built /\ gateway.Routes = <<>>
          ELSE gateway.err = Nil /\ gateway.built

\* C16 witness: the second of two endpoints has the bad target; neither router
\* nor gateway was built.
C16_Witness ==
    /\ Len(endpoints) = 2
    /\ ParseURL(endpoints[1].Target).err = Nil
    /\ ParseURL(endpoints[2].Target).err # Nil
    /\ router # NoRouter /\ ~router.built
    /\ gateway # NoGateway /\ ~gateway.built

\* Whether every route of a table has exactly the declared middlewares that the
\* registry resolves, in declared order.
RoutesResolved(routes) ==
    \A p \in DOMAIN routes : \A m \in DOMAIN routes[p] :
        routes[p][m].Middlewares = ResolvedOf(registry, routes[p][m].Middleware)

\* C17: a middleware name that is not in the registry is not fatal: with
\* targets that parse, router and gateway construction succeed, every route's
\* chain consists of exactly its declared names that resolved, in declared
\* order, and so does the global chain.
C17_MissingNonFatal ==
    ~SomeBadTarget =>
        /\ router # NoRouter => (router.built /\ RoutesResolved(router.Routes))
        /\ gateway # NoGateway =>
              /\ gateway.built
              /\ RoutesResolved(gateway.Routes)
              /\ gateway.globalMiddlewares = ResolvedOf(registry, gwNames)

\* C17 witness: a gateway built with a route and a global chain that both name
\* a missing middleware between two registered ones.
C17_Witness ==
    /\ gateway.built /\ router.built
    /\ gwNames = <<"B", "absent", "A">>
    /\ gateway.globalMiddlewares = <<MwFunc("B"), MwFunc("A")>>
    /\ \E p \in DOMAIN gateway.Routes : \E m \in DOMAIN gateway.Routes[p] :
          /\ gateway.Routes[p][m].Middleware = <<"B", "absent", "A">>
          /\ gateway.Routes[p][m].Middlewares = <<MwFunc("B"), MwFunc("A")>>

(***************************************************************************)
(* A live gateway (src/heimdall.go): Use appends to the global chain and   *)
(* recomposes every route's handler, one route after the other in the      *)
(* order the map iteration yields, while requests are dispatched.  Nothing *)
(* synchronises the store to route.Handler in ApplyGlobalMiddleware with   *)
(* the load in ProxyHandler.ServeHTTP: a load that falls into a store is a *)
(* data race and yields the old or the new handler.                        *)
(***************************************************************************)
LiveEndpoints ==
    << [Path |-> "/foo", Method |-> "GET", Target |-> "http://a/x",
        Headers |-> <<>>, AllowedHeaders |-> <<>>, Middlewares |-> <<"A", "C">>],
       [Path |-> "/bar", Method |-> "POST", Target |-> "http://b",
        Headers |-> <<>>, AllowedHeaders |-> <<>>, Middlewares |-> <<>>] >>

LiveRegistry == [n \in {"A", "C", "G", "H"} |-> MwFunc(n)]

LiveGlobalNames == <<"G", "H">>

UseMws == {MwFunc("U"), MwFunc("V")}

\* The (path, method) keys of a route table.
RouteKeys(routes) ==
    UNION {{[path |-> p, method |-> m] : m \in DOMAIN routes[p]} : p \in DOMAIN routes}

\* A mutation of Use: the middleware is put in front of the global chain.
GlobalAddFront(global, m) == <<m>> \o global

\* g.globalMiddlewares.Add(middleware)
GlobalAdd(global, m) == Append(global, m)

\* The handler the recomposition stores for the route of key k.
Recomposed(gw, k) ==
    InitializeRouteHandlers(gw.Routes, gw.globalMiddlewares)[k.path][k.method].Handler

InitGateway ==
    /\ ChainIdle /\ HeadersIdle /\ ProxyIdle /\ ServerIdle
    /\ endpoints = LiveEndpoints
    /\ registry = LiveRegistry
    /\ router = NoRouter
    /\ lookup = [called |-> FALSE]
    /\ gwNames = LiveGlobalNames
    /\ AdminIdle
    /\ gateway = NewWithRegistry(LiveEndpoints, LiveGlobalNames, LiveRegistry)
    /\ use = NoUse
    /\ used = <<>>
    /\ served = NoServed
    /\ raced = FALSE

GatewayFrame ==
    /\ UNCHANGED <<endpoints, registry, router, lookup, gwNames, adminVars>>
    /\ UNCHANGED <<chainVars, headerVars, proxyVars, serverVars>>

\* g.Use(m) is called: the middleware is added to the global chain.
UseCall ==
    /\ gateway.built
    /\ use.pc = "idle"
    /\ Len(used) < MaxUses
    /\ \E m \in UseMws :
          /\ gateway' = [gateway EXCEPT !.globalMiddlewares = GlobalAdd(@, m)]
          /\ use' = [pc |-> "apply", mw |-> m, todo |-> RouteKeys(gateway.Routes),
                     writing |-> {}]
    /\ UNCHANGED <<used, served, raced>>
    /\ GatewayFrame

\* ApplyGlobalMiddleware reaches a route: the store to its Handler begins.
UseWriteBegin ==
    /\ use.pc = "apply"
    /\ use.writing = {}
    /\ \E k \in use.todo : use' = [use EXCEPT !.writing = {k}]
    /\ UNCHANGED <<gateway, used, served, raced>>
    /\ GatewayFrame

\* The store to the route's Handler is complete.
UseWriteEnd ==
    /\ use.pc = "apply"
    /\ \E k \in use.writing :
          /\ gateway' = [gateway EXCEPT !.Routes[k.path][k.method].Handler =
                                            Recomposed(gateway, k)]
          /\ use' = [use EXCEPT !.todo = @ \ {k}, !.writing = {}]
    /\ UNCHANGED <<used, served, raced>>
    /\ GatewayFrame

\* Use returns.
UseReturn ==
    /\ use.pc = "apply"
    /\ use.todo = {}
    /\ used' = Append(used, use.mw)
    /\ use' = NoUse
    /\ UNCHANGED <<gateway, served, raced>>
    /\ GatewayFrame

\* A request for a route is dispatched: ServeHTTP loads route.Handler and runs it.
DispatchLive ==
    /\ gateway.built
    /\ \E k \in RouteKeys(gateway.Routes) :
          \E h \in {gateway.Routes[k.path][k.method].Handler}
                     \cup (IF k \in use.writing THEN {Recomposed(gateway, k)} ELSE {}) :
              /\ served' = [any |-> TRUE, path |-> k.path, method |-> k.method,
                            log |-> Serve(h), usedBefore |-> used,
                            duringUse |-> use.pc # "idle"]
              /\ raced' = (raced \/ k \in use.writing)
    /\ UNCHANGED <<gateway, use, used>>
    /\ GatewayFrame

NextGateway == UseCall \/ UseWriteBegin \/ UseWriteEnd \/ UseReturn \/ DispatchLive

SpecGateway == InitGateway /\ [][NextGateway]_vars

\* What a handler composed of the chains global and own around the terminal
\* proxy step records: entry outermost first, exit outermost last.
Onion(global, own) ==
    Befores(global) \o Befores(own) \o <<Ev("proxy", "run")>>
        \o Afters(own) \o Afters(global)

\* C18: after ApplyGlobalMiddleware(globalChain, terminal) every route's handler
\* runs all global middlewares in global-chain order, then the route's own
\* resolved middlewares in declared order, then terminal.
C18_GlobalThenRoute ==
    \A k \in RouteKeys(gateway.Routes) \ use.todo :
        LET route == gateway.Routes[k.path][k.method]
        IN  /\ route.Handler # NoHandler
            /\ Serve(route.Handler) = Onion(gateway.globalMiddlewares, route.Middlewares)

\* C18 witness: recomposed with the global chain [G, H, U], the handler of
\* GET /foo runs G, H, U, then A, C, then the proxy step.
C18_Witness ==
    /\ use.pc = "idle"
    /\ used = <<MwFunc("U")>>
    /\ Serve(gateway.Routes["/foo"]["GET"].Handler) =
          <<Ev("G", "before"), Ev("H", "before"), Ev("U", "before"),
            Ev("A", "before"), Ev("C", "before"), Ev("proxy", "run"),
            Ev("C", "after"), Ev("A", "after"),
            Ev("U", "after"), Ev("H", "after"), Ev("G", "after")>>

\* C19: a request dispatched after the last of Use(m1), ..., Use(mk) returned
\* runs, on every route, the configured global middlewares, then m1..mk in call
\* order, then the route's own middlewares, then the terminal proxy step,
\* entered outermost first and left outermost last.
C19_UseOrder ==
    (served.any /\ ~served.duringUse) =>
        served.log = Onion(ResolvedOf(registry, gwNames) \o served.usedBefore,
                           gateway.Routes[served.path][served.method].Middlewares)

\* C19 witness: after Use(U) and Use(V) returned, a request for GET /foo ran
\* G, H, U, V, A, C and the proxy step.
C19_Witness ==
    /\ served.any /\ ~served.duringUse
    /\ served.usedBefore = <<MwFunc("U"), MwFunc("V")>>
    /\ served.log =
          <<Ev("G", "before"), Ev("H", "before"), Ev("U", "before"), Ev("V", "before"),
            Ev("A", "before"), Ev("C", "before"), Ev("proxy", "run"),
            Ev("C", "after"), Ev("A", "after"), Ev("V", "after"), Ev("U", "after"),
            Ev("H", "after"), Ev("G", "after")>>

\* C20: Use called while requests are dispatched is race-free: no request
\* reads a route's handler field while the recomposition is writing it.
C20_RaceFree == ~raced

(***************************************************************************)
(* The administration path of a constructed gateway: Gateway.Use,          *)
(* ProxyHandler.InitializeRouteHandlers run again with the gateway's       *)
(* global chain, and Router.SetHandler, each run to completion from one    *)
(* caller, with requests dispatched between them.                          *)
(***************************************************************************)
MaxApplies == 2

AdminEndpoints ==
    << [Path |-> "/foo", Method |-> "GET", Target |-> "http://a/x",
        Headers |-> [n \in {"X-Static"} |-> <<"v1">>],
        AllowedHeaders |-> <<"X-Fwd">>, Middlewares |-> <<"A", "C">>],
       [Path |-> "/foo", Method |-> "POST", Target |-> "http://b",
        Headers |-> <<>>, AllowedHeaders |-> <<>>, Middlewares |-> <<"C">>],
       [Path |-> "/bar", Method |-> "POST", Target |-> "http://b",
        Headers |-> <<>>, AllowedHeaders |-> <<>>, Middlewares |-> <<>>] >>

\* The handlers given to SetHandler: a handler function, and nil.
CustomHandlers == {FinalHandler("custom"), NilHandler}

\* A mutation of SetHandler: the route keeps the handler it has.
SetHandlerKeepsComposed(routes, k, h) == routes

\* Router.SetHandler(route, handler), route being the route of key k.
SetHandler(routes, k, h) ==
    [routes EXCEPT ![k.path][k.method].Handler =
                       Then(routes[k.path][k.method].Middlewares, h)]

\* A mutation of Use: the routes' middleware names are resolved again, against
\* the registry as it is at the call.
GatewayUseResolvesAgain(gw, m) ==
    LET global == GlobalAdd(gw.globalMiddlewares, m)
        again == [p \in DOMAIN gw.Routes |->
                    [md \in DOMAIN gw.Routes[p] |->
                        ResolveRoute(registry, [gw.Routes[p][md] EXCEPT !.Middlewares = <<>>])]]
    IN  [gw EXCEPT !.globalMiddlewares = global,
                   !.Routes = InitializeRouteHandlers(again, global)]

\* Gateway.Use(middleware), from the call to its return.
GatewayUse(gw, m) ==
    LET global == GlobalAdd(gw.globalMiddlewares, m)
    IN  [gw EXCEPT !.globalMiddlewares = global,
                   !.Routes = InitializeRouteHandlers(gw.Routes, global)]

\* The gateway as NewWithRegistry returned it.
ConstructedGateway == NewWithRegistry(endpoints, gwNames, registry)

\* No route has a handler given by SetHandler.
NoCustom == [k \in RouteKeys(ConstructedGateway.Routes) |-> NoHandler]

InitAdmin ==
    /\ ChainIdle /\ HeadersIdle /\ ProxyIdle /\ ServerIdle
    /\ endpoints = AdminEndpoints
    /\ registry = LiveRegistry
    /\ router = NoRouter
    /\ lookup = [called |-> FALSE]
    /\ gwNames = LiveGlobalNames
    /\ gateway = NewWithRegistry(AdminEndpoints, LiveGlobalNames, LiveRegistry)
    /\ use = NoUse
    /\ used = <<>>
    /\ served = NoServed
    /\ raced = FALSE
    /\ custom = [k \in RouteKeys(gateway.Routes) |-> NoHandler]
    /\ applies = 0

AdminFrame ==
    /\ UNCHANGED <<endpoints, registry, router, lookup, gwNames, use, raced>>
    /\ UNCHANGED <<chainVars, headerVars, proxyVars, serverVars>>

\* g.Use(m)
UseStep ==
    /\ Len(used) < MaxUses
    /\ \E m \in UseMws :
          /\ gateway' = GatewayUse(gateway, m)
          /\ used' = Append(used, m)
    /\ custom' = NoCustom
    /\ served' = NoServed
    /\ UNCHANGED applies
    /\ AdminFrame

\* p.InitializeRouteHandlers(g.globalMiddlewares) once more, the chain unchanged.
ReapplyStep ==
    /\ applies < MaxApplies
    /\ gateway' = [gateway EXCEPT !.Routes =
                      InitializeRouteHandlers(gateway.Routes, gateway.globalMiddlewares)]
    /\ applies' = applies + 1
    /\ custom' = NoCustom
    /\ served' = NoServed
    /\ UNCHANGED used
    /\ AdminFrame

\* router.SetHandler(route, handler)
SetHandlerStep ==
    /\ \E k \in RouteKeys(gateway.Routes), h \in CustomHandlers :
          /\ gateway' = [gateway EXCEPT !.Routes = SetHandler(gateway.Routes, k, h)]
          /\ custom' = [custom EXCEPT ![k] = h]
    /\ served' = NoServed
    /\ UNCHANGED <<used, applies>>
    /\ AdminFrame

\* A request for a route is dispatched and the route's handler serves it.
DispatchAdmin ==
    /\ \E k \in RouteKeys(gateway.Routes) :
          served' = [any |-> TRUE, path |-> k.path, method |-> k.method,
                     log |-> Serve(gateway.Routes[k.path][k.method].Handler),
                     usedBefore |-> used, duringUse |-> FALSE]
    /\ UNCHANGED <<gateway, used, custom, applies>>
    /\ AdminFrame

NextAdmin == UseStep \/ ReapplyStep \/ SetHandlerStep \/ DispatchAdmin

SpecAdmin == InitAdmin /\ [][NextAdmin]_vars

\* The names of the middlewares of the global chain.
GlobalNames == {gateway.globalMiddlewares[i].name : i \in DOMAIN gateway.globalMiddlewares}

\* What the handler SetHandler(route, h) stored records when it serves: the
\* route's own middlewares around h.
CustomLog(own, h) ==
    Befores(own) \o <<Ev(FinalName(h), "run")>> \o Afters(own)

\* The key of the route that served the last request.
ServedKey == [path |-> served.path, method |-> served.method]

\* C25: after setHandler(route, h) the route's handler is h inside the route's
\* own middlewares, with no global middleware: a request it handles afterwards
\* runs no global middleware before h; and the call changes the handler of no
\* other route.
C25_SetHandlerBypasses ==
    /\ [](\A k \in RouteKeys(gateway.Routes) :
            custom[k] # NoHandler =>
                LET route == gateway.Routes[k.path][k.method]
                    log == Serve(route.Handler)
                IN  /\ log = CustomLog(route.Middlewares, custom[k])
                    /\ \A i \in DOMAIN log : log[i].who \notin GlobalNames
                    /\ (served.any /\ ServedKey = k) => served.log = log)
    /\ [][\A k \in RouteKeys(gateway.Routes) :
            (custom'[k] # NoHandler /\ custom'[k] # custom[k]) =>
                \A k2 \in RouteKeys(gateway.Routes) \ {k} :
                    gateway'.Routes[k2.path][k2.method].Handler =
                        gateway.Routes[k2.path][k2.method].Handler]_vars

\* C25 witness: after SetHandler on GET /foo, a request for it ran A, C and the
\* custom handler and none of the global middlewares G, H, while POST /bar still
\* has the handler the global composition gave it.
C25_Witness ==
    /\ custom[[path |-> "/foo", method |-> "GET"]] = FinalHandler("custom")
    /\ custom[[path |-> "/bar", method |-> "POST"]] = NoHandler
    /\ served.any /\ ServedKey = [path |-> "/foo", method |-> "GET"]
    /\ served.log = <<Ev("A", "before"), Ev("C", "before"), Ev("custom", "run"),
                      Ev("C", "after"), Ev("A", "after")>>
    /\ Serve(gateway.Routes["/bar"]["POST"].Handler) =
          Onion(gateway.globalMiddlewares, <<>>)

\* How many times the log records the event ev.
Occurrences(log, ev) == Cardinality({i \in DOMAIN log : log[i] = ev})

\* How many entries of the chain mws are the middleware named name.
Entries(mws, name) == Cardinality({i \in DOMAIN mws : mws[i].name = name})

\* Whether log shows every entry of the chains global and own entered once and
\* left once, and the terminal proxy step run once.
EachOnce(log, global, own) ==
    /\ \A name \in DOMAIN LiveRegistry \cup {m.name : m \in UseMws} :
          /\ Occurrences(log, Ev(name, "before")) = Entries(global \o own, name)
          /\ Occurrences(log, Ev(name, "after")) = Entries(global \o own, name)
    /\ Occurrences(log, Ev("proxy", "run")) = 1
    /\ Len(log) = 2 * Len(global \o own) + 1

\* C26: composing the route handlers again with the same global chain stores
\* handlers equal to the ones it replaces, and after any number of
\* compositions (at construction, by Use, run again) every route's composed
\* handler, and every request it serves, runs each entry of the global chain
\* and of the route's chain exactly once, then the proxy step once.
C26_Idempotent ==
    /\ [](\A k \in RouteKeys(gateway.Routes) :
            custom[k] = NoHandler =>
                LET route == gateway.Routes[k.path][k.method]
                    log == Serve(route.Handler)
                IN  /\ route.Handler = Recomposed(gateway, k)
                    /\ log = Onion(gateway.globalMiddlewares, route.Middlewares)
                    /\ EachOnce(log, gateway.globalMiddlewares, route.Middlewares)
                    /\ (served.any /\ ServedKey = k) => served.log = log)
    /\ [][(applies' # applies /\ custom = NoCustom) =>
             gateway'.Routes = gateway.Routes]_vars

\* C26 witness: after Use(U) and two more compositions with the chain
\* [G, H, U], a request for GET /foo ran G, H, U, A, C once each.
C26_Witness ==
    /\ applies >= 2
    /\ used = <<MwFunc("U")>>
    /\ served.any /\ ServedKey = [path |-> "/foo", method |-> "GET"]
    /\ custom[ServedKey] = NoHandler
    /\ served.log =
          <<Ev("G", "before"), Ev("H", "before"), Ev("U", "before"),
            Ev("A", "before"), Ev("C", "before"), Ev("proxy", "run"),
            Ev("C", "after"), Ev("A", "after"),
            Ev("U", "after"), Ev("H", "after"), Ev("G", "after")>>

\* A route without its handler field.
Structure(route) ==
    [OriginalPath |-> route.OriginalPath, Target |-> route.Target,
     Method |-> route.Method, Headers |-> route.Headers,
     AllowedHeaders |-> route.AllowedHeaders, Middleware |-> route.Middleware,
     Middlewares |-> route.Middlewares]

\* C30: after construction Use, the composition run again and SetHandler add
\* and remove no (path, method) key and change no route's target, static
\* headers, allowedHeaders, middleware names or resolved chain: every route is
\* as NewWithRegistry built it but for its handler.
C30_TableFixed ==
    /\ DOMAIN gateway.Routes = DOMAIN ConstructedGateway.Routes
    /\ \A p \in DOMAIN gateway.Routes :
          /\ DOMAIN gateway.Routes[p] = DOMAIN ConstructedGateway.Routes[p]
          /\ \A m \in DOMAIN gateway.Routes[p] :
                Structure(gateway.Routes[p][m]) =
                    Structure(ConstructedGateway.Routes[p][m])

\* C30 witness: Use, a composition run again and SetHandler have all acted and
\* the handlers of GET /foo and POST /foo are no longer the constructed ones.
C30_Witness ==
    /\ used # <<>>
    /\ applies > 0
    /\ custom[[path |-> "/foo", method |-> "GET"]] # NoHandler
    /\ gateway.Routes["/foo"]["GET"].Handler #
          ConstructedGateway.Routes["/foo"]["GET"].Handler
    /\ gateway.Routes["/foo"]["POST"].Handler #
          ConstructedGateway.Routes["/foo"]["POST"].Handler
    /\ gateway.Routes["/foo"]["GET"].Headers = [n \in {"X-Static"} |-> <<"v1">>]

(***************************************************************************)
(* Router.ApplyGlobalMiddleware on the chains as Go slices: the global     *)
(* chain is the slice c1 over the backing arrays, each route gets a clone  *)
(* of it with the route's chain added, and the routes are visited in the   *)
(* order the range over the two maps happens to take.                      *)
(***************************************************************************)
RECURSIVE BuildChain(_, _, _, _)
\* for _, middleware := range middlewares { globalMiddlewares.Add(middleware) }
BuildChain(hp, c, mws, i) ==
    IF i > Len(mws) THEN [heap |-> hp, slice |-> c]
    ELSE LET r == ChainAdd(hp, c, mws[i])
         IN  BuildChain(r.heap, r.slice, mws, i + 1)

\* A mutation of the loop body: the route's chain is added to the global chain
\* itself, not to a clone of it.
ApplyToRouteNoClone(hp, global, route, finalHandler) ==
    LET added == ChainAdd(hp, global, MwChain(route.Middlewares))
    IN  [heap |-> added.heap, global |-> added.slice,
         route |-> [route EXCEPT !.Handler =
                       Then(Contents(added.heap, added.slice), finalHandler)]]

\* The loop body of ApplyGlobalMiddleware for one route: clone, add the route's
\* chain to the clone, compose.  The global chain's own slice is not assigned.
ApplyToRoute(hp, global, route, finalHandler) ==
    LET cloned == ChainClone(hp, global)
        added == ChainAdd(cloned.heap, cloned.slice, MwChain(route.Middlewares))
    IN  [heap |-> added.heap, global |-> global,
         route |-> [route EXCEPT !.Handler =
                       Then(Contents(added.heap, added.slice), finalHandler)]]

RECURSIVE ApplyOver(_, _, _, _, _, _)
\* The loops of ApplyGlobalMiddleware visiting the routes in the order keys[i..].
ApplyOver(hp, global, routes, keys, i, finalHandler) ==
    IF i > Len(keys) THEN [heap |-> hp, global |-> global, routes |-> routes]
    ELSE LET k == keys[i]
             r == ApplyToRoute(hp, global, routes[k.path][k.method], finalHandler)
         IN  ApplyOver(r.heap, r.global,
                       [routes EXCEPT ![k.path][k.method] = r.route],
                       keys, i + 1, finalHandler)

\* The arrays still reachable from the chain c, and c over them: the clones
\* made for the routes are garbage once their handlers are composed.
Collected(hp, c) ==
    IF c.cap = 0 THEN [heap |-> <<>>, slice |-> c]
    ELSE [heap |-> <<hp[c.arr]>>, slice |-> [c EXCEPT !.arr = 1]]

\* The global chain NewWithRegistry builds from the configured names.
ConfiguredChain == BuildChain(<<>>, NewChain, ResolvedOf(registry, gwNames), 1)

\* The configured global middleware names: none, one, two (backing arrays of
\* capacity 0, 1 and 2 to start with).
ConfiguredGlobalNames == {<<>>, <<"G">>, <<"G", "H">>}

InitApply ==
    /\ chain = <<>> /\ handler = NoHandler /\ order = <<>>
    /\ composedFrom = [mws |-> <<>>, final |-> NilHandler]
    /\ RegIdle
    /\ HeadersIdle /\ ProxyIdle /\ ServerIdle
    /\ endpoints = AdminEndpoints
    /\ registry = LiveRegistry
    /\ router = NoRouter
    /\ lookup = [called |-> FALSE]
    /\ gwNames \in ConfiguredGlobalNames
    /\ gateway = NewWithRegistry(AdminEndpoints, gwNames, LiveRegistry)
    /\ use = NoUse
    /\ used = <<>>
    /\ served = NoServed
    /\ raced = FALSE
    /\ custom = <<>>
    /\ applies = 0
    /\ arrays = ConfiguredChain.heap
    /\ c1 = ConfiguredChain.slice
    /\ c2 = NoChain

ApplyFrame ==
    /\ UNCHANGED <<chain, handler, composedFrom, order, c2, regVars>>
    /\ UNCHANGED <<endpoints, registry, router, lookup, gwNames, use, raced, custom>>
    /\ UNCHANGED <<headerVars, proxyVars, serverVars>>

\* The state after ApplyGlobalMiddleware ran on the heap hp with the global
\* chain global, visiting the routes in the order keys.
Applied(hp, global, keys) ==
    LET r == ApplyOver(hp, global, gateway.Routes, keys, 1, ProxyTerminal)
        live == Collected(r.heap, r.global)
    IN  /\ arrays' = live.heap
        /\ c1' = live.slice
        /\ gateway' = [gateway EXCEPT !.Routes = r.routes,
                                      !.globalMiddlewares =
                                          Contents(live.heap, live.slice)]

\* g.Use(m) on the slices.
UseApply ==
    /\ Len(used) < MaxUses
    /\ \E m \in UseMws, keys \in Perms(RouteKeys(gateway.Routes)) :
          LET a == ChainAdd(arrays, c1, m)
          IN  /\ Applied(a.heap, a.slice, keys)
              /\ used' = Append(used, m)
    /\ served' = NoServed
    /\ UNCHANGED applies
    /\ ApplyFrame

\* p.InitializeRouteHandlers(g.globalMiddlewares) once more, on the slices.
Reapply ==
    /\ applies < MaxApplies
    /\ \E keys \in Perms(RouteKeys(gateway.Routes)) : Applied(arrays, c1, keys)
    /\ applies' = applies + 1
    /\ served' = NoServed
    /\ UNCHANGED used
    /\ ApplyFrame

\* ProxyHandler.ServeHTTP once the route is found: the route's handler serves
\* the request, or, when the route has none, proxyRequest is called directly.
ServeRoute(route) ==
    IF route.Handler = NoHandler THEN <<Ev("proxyRequest", "direct")>>
    ELSE Serve(route.Handler)

\* A request for a route is dispatched and served.
DispatchApply ==
    /\ \E k \in RouteKeys(gateway.Routes) :
          served' = [any |-> TRUE, path |-> k.path, method |-> k.method,
                     log |-> ServeRoute(gateway.Routes[k.path][k.method]),
                     usedBefore |-> used, duringUse |-> FALSE]
    /\ UNCHANGED <<gateway, used, applies, arrays, c1>>
    /\ ApplyFrame

NextApply == UseApply \/ Reapply \/ DispatchApply

SpecApply == InitApply /\ [][NextApply]_vars

\* The names of the middlewares of a chain.
NamesOf(mws) == {mws[i].name : i \in DOMAIN mws}

\* C31: ApplyGlobalMiddleware leaves the global chain as it was (the configured
\* middlewares and the ones given to Use, nothing else, however often it ran)
\* and every route's own chain as constructed, and what a route's handler runs
\* is the global chain, that route's own chain and the proxy step: no
\* middleware that is only of another route's chain.
C31_ChainsUnchanged ==
    /\ [](/\ Contents(arrays, c1) = ResolvedOf(registry, gwNames) \o used
          /\ c1.len = Len(gwNames) + Len(used)
          /\ \A k \in RouteKeys(gateway.Routes) :
                LET route == gateway.Routes[k.path][k.method]
                    log == Serve(route.Handler)
                IN  /\ route.Middlewares =
                          ConstructedGateway.Routes[k.path][k.method].Middlewares
                    /\ \A i \in DOMAIN log :
                          log[i].who \in NamesOf(Contents(arrays, c1))
                                            \cup NamesOf(route.Middlewares) \cup {"proxy"}
                    /\ (served.any /\ ServedKey = k) => served.log = log)
    /\ [][applies' # applies =>
             /\ Contents(arrays', c1') = Contents(arrays, c1)
             /\ c1'.len = c1.len
             /\ \A k \in RouteKeys(gateway.Routes) :
                   gateway'.Routes[k.path][k.method].Middlewares =
                       gateway.Routes[k.path][k.method].Middlewares]_vars

\* C31 witness: the composition ran again on a global chain [G, H, U] whose
\* backing array has a spare cell, and a request for POST /bar, which has no
\* middleware of its own, ran G, H, U and the proxy step, not the A and C of
\* GET /foo.
C31_Witness ==
    /\ applies > 0
    /\ Contents(arrays, c1) = <<MwFunc("G"), MwFunc("H"), MwFunc("U")>>
    /\ c1.cap > c1.len
    /\ served.any /\ ServedKey = [path |-> "/bar", method |-> "POST"]
    /\ served.log = <<Ev("G", "before"), Ev("H", "before"), Ev("U", "before"),
                      Ev("proxy", "run"),
                      Ev("U", "after"), Ev("H", "after"), Ev("G", "after")>>


(***************************************************************************)
(* A middleware that answers without calling next (src/unnamed/part_013,   *)
(* the preflight branch of CORS) in a composed route handler.              *)
(***************************************************************************)
\* The middlewares composed into a route's handler by InitializeRouteHandlers,
\* outermost first: the global ones, then the route's own.
Stack(route) == GlobalMiddlewares \o route.Middlewares

HasResponder(mws) == \E k \in 1..Len(mws) : ~MwDelegates(mws[k].name)

\* The position of the outermost middleware that answers without delegating.
FirstResponder(mws) ==
    CHOOSE k \in 1..Len(mws) :
        /\ ~MwDelegates(mws[k].name)
        /\ \A j \in 1..(k - 1) : MwDelegates(mws[j].name)

\* C32: when a middleware of a composed handler answers without delegating,
\* the request is complete with the pre-logic of the middlewares up to and
\* including it, then the post-logic of the ones before it in reverse order,
\* and nothing else: no middleware added after it ran, the terminal proxy step
\* did not run and no backend was contacted.
C32_ShortCircuit ==
    \A r \in Reqs :
        (Matched(r) /\ RouteOf(r).Handler # NoHandler /\ HasResponder(Stack(RouteOf(r)))) =>
            LET mws == Stack(RouteOf(r))
                k == FirstResponder(mws)
                all == reqs[r].log \o reqs[r].post
            IN  /\ reqs[r].state = "done"
                /\ reqs[r].log = Befores(SubSeq(mws, 1, k)) \o Afters(SubSeq(mws, 1, k - 1))
                /\ reqs[r].post = <<>>
                /\ \A i \in (k + 1)..Len(mws), e \in 1..Len(all) : all[e].who # mws[i].name
                /\ \A e \in 1..Len(all) : all[e].who # ProxyTerminal.mw
                /\ reqs[r].contacted = 0
                /\ reqs[r].outPath = Nil

\* C32 witness: POST /bar, whose handler is B, S, A around the proxy step, was
\* answered by S: B-before, S-before, B-after ran, A and the proxy step did not,
\* and no backend was contacted.
C32_Witness ==
    \E r \in Reqs :
        /\ Matched(r)
        /\ reqs[r].path = "/bar" /\ reqs[r].method = "POST"
        /\ Stack(RouteOf(r)) = <<MwFunc("B"), MwFunc("S"), MwFunc("A")>>
        /\ RouteOf(r).Handler # NoHandler
        /\ reqs[r].log = <<Ev("B", "before"), Ev("S", "before"), Ev("B", "after")>>
        /\ reqs[r].status = 204
        /\ reqs[r].contacted = 0


(***************************************************************************)
(* The package-level default registry (src/unnamed/part_009, lines 62-95)  *)
(* and router.New, which builds against DefaultRegistry().  The calls are  *)
(* made one after another; mregistry is the map of the registry that       *)
(* defaultRegistry points at when it is not nil.                           *)
(***************************************************************************)
DefaultEndpoints ==
    << [Path |-> "/foo", Method |-> "GET", Target |-> "http://a/x",
        Headers |-> <<>>, AllowedHeaders |-> <<>>, Middlewares |-> <<"x", "y">>] >>

\* DefaultRegistry(): the first call ever runs the sync.Once body, which
\* assigns a new registry to defaultRegistry whatever it held.
DefaultRegistry(df, reg) ==
    IF ~df.once
    THEN [defaults |-> [df EXCEPT !.once = TRUE, !.isNil = FALSE], registry |-> EmptyRegistry]
    ELSE [defaults |-> df, registry |-> reg]

DefaultFrame ==
    UNCHANGED <<chain, handler, composedFrom, order, cloneVars, mutex, calls, registered,
                lookup, gwVars, headerVars, proxyVars, serverVars>>

\* ResetDefaultRegistry()
ResetDefaultRegistry ==
    /\ ~defaults.panicked
    /\ mregistry' = EmptyRegistry
    /\ defaults' = [defaults EXCEPT !.isNil = FALSE, !.since = EmptyRegistry]
    /\ UNCHANGED <<endpoints, registry, router>>
    /\ DefaultFrame

\* DefaultRegistry()
DefaultRegistryCall ==
    /\ ~defaults.panicked
    /\ mregistry' = DefaultRegistry(defaults, mregistry).registry
    /\ defaults' = DefaultRegistry(defaults, mregistry).defaults
    /\ UNCHANGED <<endpoints, registry, router>>
    /\ DefaultFrame

\* RegisterMiddleware(name, mw): defaultRegistry.Register(name, mw); on a nil
\* defaultRegistry the call panics in r.mutex.Lock().
RegisterMiddleware ==
    /\ ~defaults.panicked
    /\ \E name \in RegNames, mw \in RegMws :
          IF defaults.isNil
          THEN /\ defaults' = [defaults EXCEPT !.panicked = TRUE]
               /\ UNCHANGED mregistry
          ELSE IF RegisterExists(mregistry, name)
          THEN UNCHANGED <<mregistry, defaults>>
          ELSE /\ mregistry' = RegisterStore(mregistry, name, mw)
               /\ defaults' = [defaults EXCEPT !.since = RegisterStore(@, name, mw)]
    /\ UNCHANGED <<endpoints, registry, router>>
    /\ DefaultFrame

\* GetMiddleware(name): defaultRegistry.Get(name)
GetMiddleware ==
    /\ ~defaults.panicked
    /\ \E name \in AskNames :
          IF defaults.isNil
          THEN defaults' = [defaults EXCEPT !.panicked = TRUE]
          ELSE defaults' = [defaults EXCEPT !.asked =
                              [called |-> TRUE, name |-> name,
                               found |-> name \in DOMAIN mregistry,
                               mw |-> RegistryGet(mregistry, name).mw,
                               since |-> defaults.since]]
    /\ UNCHANGED <<mregistry, endpoints, registry, router>>
    /\ DefaultFrame

\* router.New(endpoints): NewWithRegistry(endpoints, middleware.DefaultRegistry())
RouterNew ==
    /\ ~defaults.panicked
    /\ LET d == DefaultRegistry(defaults, mregistry)
       IN  /\ mregistry' = d.registry
           /\ defaults' = [d.defaults EXCEPT !.built = TRUE, !.builtSince = defaults.since]
           /\ endpoints' = DefaultEndpoints
           /\ registry' = d.registry
           /\ router' = NewRouterWithRegistry(DefaultEndpoints, d.registry)
    /\ DefaultFrame

InitDefault == InitChain

NextDefault ==
    \/ ResetDefaultRegistry
    \/ DefaultRegistryCall
    \/ RegisterMiddleware
    \/ GetMiddleware
    \/ RouterNew

SpecDefault == InitDefault /\ [][NextDefault]_vars

\* C33: a middleware registered in the default registry since the last reset is
\* found by every later GetMiddleware, and every router built afterwards against
\* DefaultRegistry() has it in the chain of each route that names it.
C33_DefaultFinds ==
    /\ (defaults.asked.called /\ defaults.asked.name \in DOMAIN defaults.asked.since) =>
          /\ defaults.asked.found
          /\ defaults.asked.mw = defaults.asked.since[defaults.asked.name]
    /\ defaults.built =>
          \A p \in DOMAIN router.Routes : \A m \in DOMAIN router.Routes[p] :
             LET route == router.Routes[p][m]
             IN  \A i \in 1..Len(route.Middleware) :
                    route.Middleware[i] \in DOMAIN defaults.builtSince =>
                       \E j \in 1..Len(route.Middlewares) :
                          route.Middlewares[j] = defaults.builtSince[route.Middleware[i]]


(***************************************************************************)
(* Gateway.RegisterMiddleware after construction (src/heimdall.go): the    *)
(* gateway was built with routes naming "M", which its registry did not    *)
(* hold; "M" may be registered later, between Use calls and requests.      *)
(***************************************************************************)
LateEndpoints ==
    << [Path |-> "/foo", Method |-> "GET", Target |-> "http://a/x",
        Headers |-> <<>>, AllowedHeaders |-> <<>>, Middlewares |-> <<"A", "M">>],
       [Path |-> "/bar", Method |-> "POST", Target |-> "http://b",
        Headers |-> <<>>, AllowedHeaders |-> <<>>, Middlewares |-> <<"M">>] >>

\* The registry given to NewWithRegistry, and the names registered afterwards.
EarlyRegistry == [n \in {"A", "G"} |-> MwFunc(n)]
LateNames == {"M", "A", "N"}
LateGlobalNames == <<"G">>

InitLate ==
    /\ ChainIdle /\ HeadersIdle /\ ProxyIdle /\ ServerIdle
    /\ endpoints = LateEndpoints
    /\ registry = EarlyRegistry
    /\ router = NoRouter
    /\ lookup = [called |-> FALSE]
    /\ gwNames = LateGlobalNames
    /\ gateway = NewWithRegistry(LateEndpoints, LateGlobalNames, EarlyRegistry)
    /\ use = NoUse
    /\ used = <<>>
    /\ served = NoServed
    /\ raced = FALSE
    /\ custom = [k \in RouteKeys(gateway.Routes) |-> NoHandler]
    /\ applies = 0

\* g.RegisterMiddleware(name, mw): g.registry.Register(name, mw).  A successful
\* registration is recorded with the number of Use calls made before it.
GatewayRegisterMiddleware ==
    /\ \E name \in LateNames :
          IF RegisterExists(registry, name)
          THEN UNCHANGED <<registry, registered>>
          ELSE /\ registry' = RegisterStore(registry, name, MwFunc(name))
               /\ registered' = Append(registered, [name |-> name, uses |-> Len(used)])
    /\ UNCHANGED <<endpoints, router, lookup, gwVars>>
    /\ UNCHANGED <<chain, handler, composedFrom, order, cloneVars, mregistry, mutex, calls,
                   defaults, headerVars, proxyVars, serverVars>>

NextLate == GatewayRegisterMiddleware \/ UseStep \/ ReapplyStep \/ DispatchAdmin

SpecLate == InitLate /\ [][NextLate]_vars

\* The names of a route that the registry did not hold at construction.
MissingAtConstruction(route) == MissingOf(EarlyRegistry, route.Middleware)

\* Whether the middleware registered under name takes part in handler h.
RECURSIVE TakesPart(_, _)
TakesPart(name, h) ==
    /\ h.kind = "mw"
    /\ (h.mw = name \/ TakesPart(name, h.next[1]))

\* C34: a route's chain is the one resolved at construction, in every state: a
\* name the registry did not hold then is not in the route's chain nor in its
\* handler, and does not run for a request, also after the name was registered
\* and Use composed the handlers again.
C34_ResolvedOnce ==
    /\ \A k \in RouteKeys(gateway.Routes) :
          LET route == gateway.Routes[k.path][k.method]
              missing == MissingAtConstruction(route)
          IN  /\ route.Middlewares = ResolvedOf(EarlyRegistry, route.Middleware)
              /\ \A i \in 1..Len(missing) :
                    /\ \A j \in 1..Len(route.Middlewares) : route.Middlewares[j].name # missing[i]
                    /\ ~TakesPart(missing[i], route.Handler)
    /\ served.any =>
          LET missing == MissingAtConstruction(gateway.Routes[served.path][served.method])
          IN  \A i \in 1..Len(missing), e \in 1..Len(served.log) :
                 served.log[e].who # missing[i]

\* C34 witness: "M" was registered, a Use call was made after that, and a
\* request for POST /bar, which names only "M", ran the global middlewares and
\* the proxy step alone.
C34_Witness ==
    /\ \E i \in 1..Len(registered) :
          /\ registered[i].name = "M"
          /\ Len(used) > registered[i].uses
    /\ "M" \in DOMAIN registry
    /\ used = <<MwFunc("U")>>
    /\ served.any /\ served.path = "/bar" /\ served.method = "POST"
    /\ served.log = <<Ev("G", "before"), Ev("U", "before"), Ev("proxy", "run"),
                      Ev("U", "after"), Ev("G", "after")>>


(***************************************************************************)
(* Endpoint definitions that share a (path, method) (src/router.go, the    *)
(* first loop of NewRouterWithRegistry).                                   *)
(***************************************************************************)
\* The (path, method) pairs the endpoint definitions name.
DefinedKeys ==
    {[path |-> endpoints[i].Path, method |-> endpoints[i].Method] : i \in 1..Len(endpoints)}

\* C35: when every target parses, construction succeeds whether or not two
\* definitions share a (path, method); the table holds exactly one route for
\* each pair that is defined, built from the last definition of the pair, so it
\* has no more routes than there are definitions.
C35_OnePerKey ==
    (router # NoRouter /\ ~SomeBadTarget) =>
        /\ router.built /\ router.err = Nil
        /\ RouteKeys(router.Routes) = DefinedKeys
        /\ Cardinality(RouteKeys(router.Routes)) <= Len(endpoints)
        /\ \A k \in RouteKeys(router.Routes) :
              LET def == endpoints[Last(DefsOf(k.path, k.method))]
                  route == router.Routes[k.path][k.method]
              IN  /\ route.OriginalPath = def.Path
                  /\ route.Method = def.Method
                  /\ route.Target = ParseURL(def.Target).url
                  /\ route.Middleware = def.Middlewares
                  /\ route.Headers = def.Headers
                  /\ route.AllowedHeaders = def.AllowedHeaders

\* C35 witness: two definitions of the same (path, method) with different
\* targets and middleware names; the router was built and holds one route, the
\* second definition's.
C35_Witness ==
    /\ router.built
    /\ Len(endpoints) = 2
    /\ endpoints[1].Path = endpoints[2].Path /\ endpoints[1].Method = endpoints[2].Method
    /\ endpoints[1].Target # endpoints[2].Target
    /\ endpoints[1].Middlewares # endpoints[2].Middlewares
    /\ Cardinality(RouteKeys(router.Routes)) = 1
    /\ router.Routes[endpoints[2].Path][endpoints[2].Method].Target
          = ParseURL(endpoints[2].Target).url


(***************************************************************************)
(* Where the global chain is entered (ProxyHandler.ServeHTTP; the server's *)
(* own chain in Server.Start is empty, so the http.Server's handler is the *)
(* proxy handler itself).                                                  *)
(***************************************************************************)
\* What ran for request r so far and what is still to run when it returns.
Ran(r) == reqs[r].log \o reqs[r].post

\* C36: a request that matches no route runs no middleware, global or other;
\* whenever a global middleware ran for a request, the request matched a route
\* that has a composed handler.
C36_GlobalOnlyThroughRoute ==
    \A r \in Reqs :
        /\ (/\ reqs[r].state \notin {"none", "accepted"}
            /\ ~GetRoute(router.Routes, reqs[r].path, reqs[r].method).found)
              => Ran(r) = <<>>
        /\ (\E e \in 1..Len(Ran(r)), g \in 1..Len(GlobalMiddlewares) :
               Ran(r)[e].who = GlobalMiddlewares[g].name)
              => (Matched(r) /\ RouteOf(r).Handler # NoHandler)

\* C36 witness: the handlers are composed with the global chain, a request for
\* a path no route has was answered 404 and nothing ran for it.
C36_Witness ==
    \E r \in Reqs :
        /\ router = InitializedRouter
        /\ reqs[r].state = "done"
        /\ reqs[r].path = "/nope"
        /\ ~reqs[r].precanceled
        /\ reqs[r].status = 404
        /\ Ran(r) = <<>>


(***************************************************************************)
(* The two route lookups of a request served by a composed handler: the    *)
(* one of ServeHTTP and the one of the terminal handler (src/unnamed/      *)
(* part_003, lines 42-68).  The middlewares of the model leave the path    *)
(* and the method of the request as they are.                              *)
(***************************************************************************)
\* Whether request r was handed to proxyRequest.
Forwarded(r) == reqs[r].contacted > 0

\* C37: a request served by a composed handler whose middlewares all delegate
\* is forwarded once, to the host and path of the target of the route matched
\* at dispatch, and is never answered by the 404 of the terminal handler; any
\* forwarded request went to the target of the route it matched.
C37_SameRoute ==
    \A r \in Reqs :
        /\ (Matched(r) /\ RouteOf(r).Handler # NoHandler /\ ReachesFinal(RouteOf(r).Handler)) =>
              /\ reqs[r].contacted = 1
              /\ reqs[r].status # 404
              /\ reqs[r].body # "Route Not Found\n"
              /\ reqs[r].log[Len(ServePre(RouteOf(r).Handler))] = Ev(ProxyTerminal.mw, "run")
        /\ Forwarded(r) =>
              /\ Matched(r)
              /\ reqs[r].outHost = RouteOf(r).Target.Host
              /\ reqs[r].outPath = RouteOf(r).Target.Path

\* C37 witness: GET /bar, whose path has a POST route with another target, was
\* served by its composed handler and forwarded to its own route's target.
C37_Witness ==
    \E r \in Reqs :
        /\ Matched(r)
        /\ reqs[r].path = "/bar" /\ reqs[r].method = "GET"
        /\ RouteOf(r).Handler # NoHandler
        /\ router.Routes["/bar"]["POST"].Target.Host # RouteOf(r).Target.Host
        /\ reqs[r].contacted = 1
        /\ reqs[r].outHost = "a"
        /\ reqs[r].state = "done" /\ reqs[r].status = 200


(***************************************************************************)
(* A handler returned by Then and the chain it came from (src/unnamed/     *)
(* part_006, Add and Then).                                                *)
(***************************************************************************)
\* C38: Then leaves the chain as it is; a step that adds to the chain leaves
\* the handler Then returned earlier, and what it records when served,
\* unchanged; so what a handler serves is always what the chain held when
\* Then was called, whatever was added since.
C38_Snapshot ==
    /\ [][(handler' # handler \/ composedFrom' # composedFrom) => chain' = chain]_vars
    /\ [][(chain' # chain /\ handler # NoHandler) =>
             (handler' = handler /\ Serve(handler') = Serve(handler))]_vars
    /\ [](order # <<>> =>
             order = Serve(Then(composedFrom.mws, composedFrom.final)))
    /\ [](handler # NoHandler =>
             /\ handler = Then(composedFrom.mws, composedFrom.final)
             /\ Len(composedFrom.mws) <= Len(chain)
             /\ SubSeq(chain, 1, Len(composedFrom.mws)) = composedFrom.mws)

\* C38 witness: Then was called on [A], then B was added, then the handler was
\* served and ran A and final only.
C38_Witness ==
    /\ composedFrom.mws = <<MwFunc("A")>>
    /\ composedFrom.final = FinalHandler("final")
    /\ chain = <<MwFunc("A"), MwFunc("B")>>
    /\ order = <<Ev("A", "before"), Ev("final", "run"), Ev("A", "after")>>


(***************************************************************************)
(* The handlers of a gateway's routes (src/heimdall.go, NewWithRegistry;   *)
(* src/unnamed/part_003, ServeHTTP and InitializeRouteHandlers).           *)
(***************************************************************************)
\* C39: in every state of a constructed gateway each route has a composed
\* handler, a route without any middleware under an empty global chain
\* included, so a request for a route is served by the route's handler, down
\* to its proxy step, and never by the direct call of proxyRequest.
C39_AlwaysComposed ==
    /\ gateway.built
    /\ \A k \in RouteKeys(gateway.Routes) :
          LET h == gateway.Routes[k.path][k.method].Handler
          IN  /\ h # NoHandler
              /\ h # NilHandler
              /\ h.kind \in {"mw", "final"}
    /\ served.any =>
          /\ \A e \in 1..Len(served.log) : served.log[e] # Ev("proxyRequest", "direct")
          /\ \E e \in 1..Len(served.log) : served.log[e] = Ev(ProxyTerminal.mw, "run")

\* C39 witness: the gateway has no global middleware and POST /bar names none;
\* a request for it was served by the route's handler, which is the proxy step
\* alone.
C39_Witness ==
    /\ gateway.built
    /\ gateway.globalMiddlewares = <<>>
    /\ gateway.Routes["/bar"]["POST"].Middlewares = <<>>
    /\ gateway.Routes["/bar"]["POST"].Handler = ProxyTerminal
    /\ served.any /\ served.path = "/bar" /\ served.method = "POST"
    /\ served.log = <<Ev(ProxyTerminal.mw, "run")>>

====
